---- MODULE Spec2Model ----
(***************************************************************************)
(* Model of the comparison core of env-compare (src/compare_vars.py):      *)
(* is_environment_specific, the DeepDiff call and extract_diff, and the    *)
(* row/summary loops of compare_tfvars_data and compare_properties_data.   *)
(*                                                                         *)
(* Python strings are tuples of one-character strings, so that lower(),    *)
(* upper(), split("."), replace, the substring test `in` and the ordering  *)
(* used by sorted() are computed character by character.                   *)
(***************************************************************************)
EXTENDS Integers, Sequences, FiniteSets, TLC

VARIABLES fn, data1, data2, env1, env2, pc, all_keys, idx,
          comparison_results, summary, first_run,
          probe,
          mode, dir1, dir2, main_data1, main_data2, units, unit_i, main_pc,
          compare_identifier, all_content, output_file, exit_status,
          temp_html

\* The state of main.
main_vars == <<mode, dir1, dir2, main_data1, main_data2, units, unit_i, main_pc,
               compare_identifier, all_content, output_file, exit_status,
               temp_html>>

\* The state outside the two comparison functions.
outer == <<probe, main_vars>>

vars == <<fn, data1, data2, env1, env2, pc, all_keys, idx,
          comparison_results, summary, first_run, outer>>

(* ------------------------------ bounds --------------------------------- *)

\* Largest number of top-level keys in the union of the two documents.
MaxKeys == 3

\* Longest list handle_nested_diffs is called on.
MaxLen == 3

\* Longest line of the enumerated lines of a properties file.
MaxLineLen == 4

(* --------------------------- Python strings ---------------------------- *)

UPPER == <<"A","B","C","D","E","F","G","H","I","J","K","L","M",
           "N","O","P","Q","R","S","T","U","V","W","X","Y","Z">>
LOWER == <<"a","b","c","d","e","f","g","h","i","j","k","l","m",
           "n","o","p","q","r","s","t","u","v","w","x","y","z">>

\* The characters the model uses, in code point order.
ASCII == <<"\t", "\n", " ", "\"", "#", "&", "'", "(", ")", ",", "-", ".", "/",
           "0","1","2","3","4","5","6","7","8","9", ":", "<", "=", ">">>
         \o UPPER \o <<"[", "]", "_">> \o LOWER \o <<"{", "}">>

\* The code point order of the characters: ord(c) < ord(d) as in Python.
ORD == [c \in {ASCII[i] : i \in 1..Len(ASCII)} |->
          CHOOSE i \in 1..Len(ASCII) : ASCII[i] = c]
ord(c) == ORD[c]

TO_LOWER == [c \in {UPPER[i] : i \in 1..26} |->
               LOWER[CHOOSE i \in 1..26 : UPPER[i] = c]]
TO_UPPER == [c \in {LOWER[i] : i \in 1..26} |->
               UPPER[CHOOSE i \in 1..26 : LOWER[i] = c]]

lower_char(c) == IF c \in DOMAIN TO_LOWER THEN TO_LOWER[c] ELSE c
upper_char(c) == IF c \in DOMAIN TO_UPPER THEN TO_UPPER[c] ELSE c

\* str.lower() and str.upper()
RECURSIVE lower(_)
lower(s) == IF s = <<>> THEN <<>> ELSE <<lower_char(Head(s))>> \o lower(Tail(s))

RECURSIVE upper(_)
upper(s) == IF s = <<>> THEN <<>> ELSE <<upper_char(Head(s))>> \o upper(Tail(s))

\* A test that holds for no empty sub.
contains_nonempty(s, sub) ==
    /\ sub # <<>>
    /\ \E i \in 0..(Len(s) - Len(sub)) : SubSeq(s, i + 1, i + Len(sub)) = sub

\* Python `sub in s` for strings.
contains(s, sub) ==
    \E i \in 0..(Len(s) - Len(sub)) : SubSeq(s, i + 1, i + Len(sub)) = sub

\* Python `a <= b` for strings: lexicographic by code point.
str_le(a, b) ==
    \/ \E i \in 1..Len(a) :
          /\ i <= Len(b)
          /\ \A j \in 1..(i - 1) : a[j] = b[j]
          /\ ord(a[i]) < ord(b[i])
    \/ /\ Len(a) <= Len(b)
       /\ \A j \in 1..Len(a) : a[j] = b[j]

(* --------------------------- literal strings --------------------------- *)

UNDEFINED         == <<"u","n","d","e","f","i","n","e","d">>
COMPARE_IDENTIFIER == <<"c","o","m","p","a","r","e","I","d","e","n","t","i","f","i","e","r">>
K_max_retries     == <<"m","a","x","_","r","e","t","r","i","e","s">>
K_Max_Retries     == <<"M","a","x","_","R","e","t","r","i","e","s">>
K_s3_bucket_url   == <<"s","3","_","b","u","c","k","e","t","_","u","r","l">>
E_dev             == <<"d","e","v">>
E_prod            == <<"p","r","o","d">>
E_staging         == <<"s","t","a","g","i","n","g">>
E_ES              == <<"E","S">>
E_uat             == <<"u","a","t">>
S_1_2             == <<"1",".","2">>
S_1_2_3           == <<"1",".","2",".","3">>
S_1_3             == <<"1",".","3">>
S_v1_2_3          == <<"v","1",".","2",".","3">>
S_v1_3_3          == <<"v","1",".","3",".","3">>
S_a               == <<"a">>
S_b               == <<"b">>
S_x               == <<"x">>
S_y               == <<"y">>

(* --------------------------- configuration values ---------------------- *)

\* A parsed value: a string, a list of values, or a dict (keys in insertion
\* order, items[i] the value of keys[i]).
Str(s)       == [t |-> "str",  s |-> s,    items |-> <<>>, keys |-> <<>>]
List(xs)     == [t |-> "list", s |-> <<>>, items |-> xs,   keys |-> <<>>]
Dict(ks, xs) == [t |-> "dict", s |-> <<>>, items |-> xs,   keys |-> ks]

Range(f) == {f[i] : i \in DOMAIN f}

\* d[k] for a dict value that has the key k
dict_get(d, k) == d.items[CHOOSE i \in 1..Len(d.keys) : d.keys[i] = k]

\* Python == on parsed values: dicts compare as mappings, lists in order.
RECURSIVE py_eq(_, _)
py_eq(a, b) ==
    IF a.t # b.t THEN FALSE
    ELSE IF a.t = "str" THEN a.s = b.s
    ELSE IF a.t = "list"
         THEN /\ Len(a.items) = Len(b.items)
              /\ \A i \in 1..Len(a.items) : py_eq(a.items[i], b.items[i])
    ELSE /\ Range(a.keys) = Range(b.keys)
         /\ \A k \in Range(a.keys) : py_eq(dict_get(a, k), dict_get(b, k))

(* ------------------- more string operations ---------------------------- *)

DIGITS == <<"0","1","2","3","4","5","6","7","8","9">>

\* str(i) for a list index i >= 0
RECURSIVE str_int(_)
str_int(i) ==
    IF i < 10 THEN <<DIGITS[i + 1]>>
    ELSE str_int(i \div 10) \o <<DIGITS[(i % 10) + 1]>>

\* s.replace(old, new), old not empty: leftmost, non-overlapping occurrences
RECURSIVE replace(_, _, _)
replace(s, old, new) ==
    IF Len(s) < Len(old) THEN s
    ELSE IF SubSeq(s, 1, Len(old)) = old
         THEN new \o replace(SubSeq(s, Len(old) + 1, Len(s)), old, new)
         ELSE <<s[1]>> \o replace(Tail(s), old, new)

\* s.split(".")
RECURSIVE split_dot(_)
split_dot(s) ==
    IF \A i \in 1..Len(s) : s[i] # "."
    THEN <<s>>
    ELSE LET i == CHOOSE i \in 1..Len(s) :
                    s[i] = "." /\ \A j \in 1..(i - 1) : s[j] # "."
         IN <<SubSeq(s, 1, i - 1)>> \o split_dot(SubSeq(s, i + 1, Len(s)))

RECURSIVE flatten(_)
flatten(ss) == IF ss = <<>> THEN <<>> ELSE Head(ss) \o flatten(Tail(ss))

(* --------------------------- parse_properties -------------------------- *)

\* The characters str.strip() removes.
WHITESPACE == {" ", "\t", "\n", "\r"}

\* s.strip()
RECURSIVE lstrip(_)
lstrip(s) ==
    IF s # <<>> /\ Head(s) \in WHITESPACE THEN lstrip(Tail(s)) ELSE s

RECURSIVE rstrip(_)
rstrip(s) ==
    IF s # <<>> /\ s[Len(s)] \in WHITESPACE
    THEN rstrip(SubSeq(s, 1, Len(s) - 1)) ELSE s

strip(s) == rstrip(lstrip(s))

\* s.startswith(prefix)
startswith(s, prefix) ==
    Len(prefix) <= Len(s) /\ SubSeq(s, 1, Len(prefix)) = prefix

\* The split at the last "=" (rsplit).
split_eq_last(s) ==
    IF \A i \in 1..Len(s) : s[i] # "="
    THEN <<s>>
    ELSE LET i == CHOOSE i \in 1..Len(s) :
                    s[i] = "=" /\ \A j \in (i + 1)..Len(s) : s[j] # "="
         IN <<SubSeq(s, 1, i - 1), SubSeq(s, i + 1, Len(s))>>

\* s.split("=", 1): one part when s has no "=", else the text before and
\* the text after the first "=".
split_eq(s) ==
    IF \A i \in 1..Len(s) : s[i] # "="
    THEN <<s>>
    ELSE LET i == CHOOSE i \in 1..Len(s) :
                    s[i] = "=" /\ \A j \in 1..(i - 1) : s[j] # "="
         IN <<SubSeq(s, 1, i - 1), SubSeq(s, i + 1, Len(s))>>

\* A file on disk: the lines of a text file, the document a well-formed
\* JSON or HCL file holds, a file json.load or hcl2.load rejects, or a file
\* that cannot be opened.
text_file(lines) == [kind |-> "text", lines |-> lines, doc |-> <<>>]
doc_file(doc)    == [kind |-> "doc", lines |-> <<>>, doc |-> doc]
malformed_file   == [kind |-> "malformed", lines |-> <<>>, doc |-> <<>>]
unopenable_file  == [kind |-> "unopenable", lines |-> <<>>, doc |-> <<>>]

\* What a parser does: it returns a document, or it ends the run through
\* sys.exit(1).
returned(document) == [returned |-> TRUE, document |-> document, exit |-> 0]
exited             == [returned |-> FALSE, document |-> <<>>, exit |-> 1]

\* properties[key] = value
put(properties, key, value) ==
    [k \in (DOMAIN properties) \cup {key} |->
        IF k = key THEN value ELSE properties[k]]

\* The loop over the lines: `key, value = line.split("=", 1)` raises
\* ValueError on a line without "=", which `except Exception` turns into
\* sys.exit(1).
RECURSIVE read_lines(_, _)
read_lines(lines, properties) ==
    IF lines = <<>> THEN returned(properties)
    ELSE LET line == strip(Head(lines))
         IN IF line # <<>> /\ ~startswith(line, <<"#">>)
            THEN LET parts == split_eq(line)
                 IN IF Len(parts) # 2 THEN exited
                    ELSE read_lines(Tail(lines),
                                    put(properties, strip(parts[1]),
                                        Str(strip(parts[2]))))
            ELSE read_lines(Tail(lines), properties)

\* A loop that passes over the lines without "=".
RECURSIVE read_lines_lenient(_, _)
read_lines_lenient(lines, properties) ==
    IF lines = <<>> THEN returned(properties)
    ELSE LET line == strip(Head(lines))
         IN IF line # <<>> /\ ~startswith(line, <<"#">>) /\ Len(split_eq(line)) = 2
            THEN read_lines_lenient(Tail(lines),
                                    put(properties, strip(split_eq(line)[1]),
                                        Str(strip(split_eq(line)[2]))))
            ELSE read_lines_lenient(Tail(lines), properties)

parse_properties_lenient(file) ==
    IF file.kind = "unopenable" THEN exited
    ELSE read_lines_lenient(file.lines, <<>>)

parse_properties(file) ==
    IF file.kind = "unopenable" THEN exited
    ELSE read_lines(file.lines, <<>>)

\* json.load / hcl2.load: the document of a well-formed file; every
\* exception (FileNotFoundError, JSONDecodeError, any other) ends in
\* sys.exit(1).
\* A parser that takes a file it cannot read for an empty document.
parse_json_empty_on_failure(file) ==
    IF file.kind = "doc" THEN returned(file.doc)
    ELSE returned(Dict(<<>>, <<>>))

parse_json(file) ==
    IF file.kind = "doc" THEN returned(file.doc) ELSE exited

parse_tfvars(file) ==
    IF file.kind = "doc" THEN returned(file.doc) ELSE exited

(* --------------------- is_environment_specific ------------------------- *)

environment_specific_keys ==
    <<<<"a","c","c","o","u","n","t">>,
      <<"r","e","g","i","o","n">>,
      <<"p","r","o","f","i","l","e">>,
      <<"e","n","v","i","r","o","n","m","e","n","t">>,
      <<"e","n","v">>,
      <<"u","r","l">>,
      <<"e","n","d","p","o","i","n","t">>,
      <<"d","a","t","a","b","a","s","e","_","n","a","m","e">>,
      <<"b","u","c","k","e","t","_","n","a","m","e">>,
      <<"s","3">>,
      <<"c","r","e","a","t","e","d">>,
      <<"t","i","m","e">>,
      <<"a","r","n">>>>

\* The list a slip would build: the labels as passed, not lower-cased.
environment_indicators_no_lower(e1, e2) ==
    <<e1, e2, E_prod, E_staging, E_dev>>

\* [env1.lower(), env2.lower(), "prod", "staging", "dev"]
environment_indicators(e1, e2) ==
    <<lower(e1), lower(e2), E_prod, E_staging, E_dev>>

is_environment_specific(key, e1, e2) ==
    LET key_lower  == lower(key)
        indicators == environment_indicators(e1, e2)
    IN IF \E i \in 1..Len(indicators) : contains(key_lower, indicators[i])
       THEN TRUE
       ELSE IF \E i \in 1..Len(environment_specific_keys) :
                  contains(key_lower, environment_specific_keys[i])
            THEN TRUE
            ELSE FALSE

(* ------------------- DeepDiff(t1, t2, ignore_order=True) --------------- *)

\* DeepDiff is the deepdiff library; its behaviour is taken from its
\* documentation.  With ignore_order=True two lists are compared through the
\* hashes of their items: an item is removed (added) when no item of the
\* other list has its hash, and without report_repetition the number of
\* times an item occurs does not count.  The hash of a value: the items of
\* a list as a set, a dict as the mapping of its keys, the type included.
\* Items removed and added are reported as such; DeepDiff's pairing of a
\* removed with an added item that are close to each other (which turns the
\* two reports into changes inside the pair) is not modelled.
RECURSIVE deep_hash(_)
deep_hash(v) ==
    CASE v.t = "str"  -> <<"str", v.s>>
      [] v.t = "list" -> <<"list", {deep_hash(v.items[i]) : i \in 1..Len(v.items)}>>
      [] OTHER        -> <<"dict", {<<v.keys[i], deep_hash(v.items[i])>> :
                                      i \in 1..Len(v.keys)}>>

\* The hash of one list item in the ignore_order comparison of two lists.
item_hash(v) == deep_hash(v)

indices(xs) == [i \in 1..Len(xs) |-> i]

\* The report, one sequence of changes per report key, in report order.
empty_report ==
    [values_changed          |-> <<>>, type_changes            |-> <<>>,
     dictionary_item_added   |-> <<>>, dictionary_item_removed |-> <<>>,
     iterable_item_added     |-> <<>>, iterable_item_removed   |-> <<>>]

merge_report(r1, r2) == [f \in DOMAIN r1 |-> r1[f] \o r2[f]]

RECURSIVE merge_reports(_)
merge_reports(rs) ==
    IF rs = <<>> THEN empty_report
    ELSE merge_report(Head(rs), merge_reports(Tail(rs)))

\* path + "['k']" and path + "[i]" (i counted from 0)
path_key(path, k)   == path \o <<"[", "'">> \o k \o <<"'", "]">>
path_index(path, i) == path \o <<"[">> \o str_int(i) \o <<"]">>

RECURSIVE deep_diff_at(_, _, _)
deep_diff_at(t1, t2, path) ==
    IF t1.t # t2.t
    THEN [empty_report EXCEPT !.type_changes =
             <<[path |-> path, old_value |-> t1, new_value |-> t2]>>]
    ELSE IF t1.t = "str"
    THEN IF t1.s = t2.s THEN empty_report
         ELSE [empty_report EXCEPT !.values_changed =
                  <<[path |-> path, old_value |-> t1, new_value |-> t2]>>]
    ELSE IF t1.t = "dict"
    THEN LET added   == SelectSeq(t2.keys, LAMBDA k : k \notin Range(t1.keys))
             removed == SelectSeq(t1.keys, LAMBDA k : k \notin Range(t2.keys))
             common  == SelectSeq(t1.keys, LAMBDA k : k \in Range(t2.keys))
         IN merge_report(
              [empty_report EXCEPT
                 !.dictionary_item_added =
                     [i \in 1..Len(added) |->
                        [path |-> path_key(path, added[i]),
                         item |-> dict_get(t2, added[i])]],
                 !.dictionary_item_removed =
                     [i \in 1..Len(removed) |->
                        [path |-> path_key(path, removed[i]),
                         item |-> dict_get(t1, removed[i])]]],
              merge_reports(
                 [i \in 1..Len(common) |->
                    deep_diff_at(dict_get(t1, common[i]), dict_get(t2, common[i]),
                                 path_key(path, common[i]))]))
    ELSE \* two lists, compared as sets of item hashes
         LET h1 == [i \in 1..Len(t1.items) |-> item_hash(t1.items[i])]
             h2 == [i \in 1..Len(t2.items) |-> item_hash(t2.items[i])]
             removed == SelectSeq(indices(t1.items), LAMBDA i :
                           /\ h1[i] \notin Range(h2)
                           /\ \A j \in 1..(i - 1) : h1[j] # h1[i])
             added   == SelectSeq(indices(t2.items), LAMBDA i :
                           /\ h2[i] \notin Range(h1)
                           /\ \A j \in 1..(i - 1) : h2[j] # h2[i])
         IN [empty_report EXCEPT
               !.iterable_item_removed =
                   [n \in 1..Len(removed) |->
                      [path |-> path_index(path, removed[n] - 1),
                       item |-> t1.items[removed[n]]]],
               !.iterable_item_added =
                   [n \in 1..Len(added) |->
                      [path |-> path_index(path, added[n] - 1),
                       item |-> t2.items[added[n]]]]]

ROOT == <<"r","o","o","t">>

\* The call without ignore_order=True: lists are compared position by
\* position, so two values differ exactly when Python's == says so.
DeepDiff_in_order(t1, t2) ==
    IF py_eq(t1, t2) THEN empty_report
    ELSE [empty_report EXCEPT !.values_changed =
             <<[path |-> ROOT, old_value |-> t1, new_value |-> t2]>>]

DeepDiff(t1, t2) == deep_diff_at(t1, t2, ROOT)

\* `if diff:` the report is truthy when it has at least one change
truthy(diff) == \E f \in DOMAIN diff : diff[f] # <<>>

(* ------------------------------ extract_diff --------------------------- *)

\* One line of exact_diff.  kind "arrow": "<key>: <old> => <new>";
\* "removed"/"added": "<key>: <old> was removed/added"; "whole":
\* "<old> => <new>" without a key; "not_defined": "<key> is not defined in
\* <old>".  The text "" is the empty sequence of lines.
no_value == Str(<<>>)
line(key, kind, old, new) == [key |-> key, kind |-> kind, old |-> old, new |-> new]

format_key(path) ==
    replace(replace(replace(replace(path,
        <<"r","o","o","t",".">>, <<>>),
        <<"r","o","o","t","[">>, <<"[">>),
        <<"]">>, <<"]">>),
        <<"'">>, <<>>)

nested_dict_key(base_key, k) ==
    IF base_key # <<>> THEN base_key \o <<".">> \o k ELSE k

nested_list_key(base_key, i) ==
    IF base_key # <<>> THEN base_key \o <<"[">> \o str_int(i) \o <<"]">>
    ELSE str_int(i)

\* The zip without its filter: one pair per position of the shorter list.
segment_diffs_every_position(old_parts, new_parts) ==
    LET n  == IF Len(old_parts) < Len(new_parts) THEN Len(old_parts)
              ELSE Len(new_parts)
    IN [j \in 1..n |-> <<old_parts[j], new_parts[j]>>]

\* zip(old_parts, new_parts) filtered on o != n
segment_diffs(old_parts, new_parts) ==
    LET n  == IF Len(old_parts) < Len(new_parts) THEN Len(old_parts)
              ELSE Len(new_parts)
        at == SelectSeq([i \in 1..n |-> i], LAMBDA i : old_parts[i] # new_parts[i])
    IN [j \in 1..Len(at) |-> <<old_parts[at[j]], new_parts[at[j]]>>]

\* The trailing items kept on the side they were found on: an item the new
\* list lacks written as added, an item it has beyond the old list as removed.
trailing_items_swapped(old_items, new_items, base_key) ==
    LET lo == Len(old_items)
        ln == Len(new_items)
    IN IF lo < ln
       THEN [j \in 1..(ln - lo) |->
               line(nested_list_key(base_key, lo + j - 1), "removed",
                    new_items[lo + j], no_value)]
       ELSE IF lo > ln
       THEN [j \in 1..(lo - ln) |->
               line(nested_list_key(base_key, ln + j - 1), "added",
                    old_items[ln + j], no_value)]
       ELSE <<>>

\* The items beyond the shorter list (lines 129-136).
trailing_items(old_items, new_items, base_key) ==
    LET lo == Len(old_items)
        ln == Len(new_items)
    IN IF lo < ln
       THEN [j \in 1..(ln - lo) |->
               line(nested_list_key(base_key, lo + j - 1), "added",
                    new_items[lo + j], no_value)]
       ELSE IF lo > ln
       THEN [j \in 1..(lo - ln) |->
               line(nested_list_key(base_key, ln + j - 1), "removed",
                    old_items[ln + j], no_value)]
       ELSE <<>>

RECURSIVE handle_nested_diffs(_, _, _)
handle_nested_diffs(old_value, new_value, base_key) ==
    IF old_value.t = "dict" /\ new_value.t = "dict"
    THEN flatten([i \in 1..Len(old_value.keys) |->
            LET k == old_value.keys[i]
                v == old_value.items[i]
            IN IF k \in Range(new_value.keys) /\ ~py_eq(dict_get(new_value, k), v)
               THEN handle_nested_diffs(v, dict_get(new_value, k),
                                        nested_dict_key(base_key, k))
               ELSE IF k \notin Range(new_value.keys)
               THEN <<line(nested_dict_key(base_key, k), "removed", v, no_value)>>
               ELSE <<>>])
         \o
         flatten([i \in 1..Len(new_value.keys) |->
            LET k == new_value.keys[i]
                v == new_value.items[i]
            IN IF k \notin Range(old_value.keys)
               THEN <<line(nested_dict_key(base_key, k), "added", v, no_value)>>
               ELSE <<>>])
    ELSE IF old_value.t = "list" /\ new_value.t = "list"
    THEN LET lo == Len(old_value.items)
             ln == Len(new_value.items)
             n  == IF lo < ln THEN lo ELSE ln
         IN flatten([i \in 1..n |->
               IF ~py_eq(old_value.items[i], new_value.items[i])
               THEN handle_nested_diffs(old_value.items[i], new_value.items[i],
                                        nested_list_key(base_key, i - 1))
               ELSE <<>>])
            \o trailing_items(old_value.items, new_value.items, base_key)
    ELSE IF old_value.t = "str" /\ new_value.t = "str"
    THEN LET differences == segment_diffs(split_dot(old_value.s),
                                          split_dot(new_value.s))
         IN [j \in 1..Len(differences) |->
               line(base_key, "arrow", Str(differences[j][1]),
                    Str(differences[j][2]))]
    ELSE <<line(base_key, "arrow", old_value, new_value)>>

extract_diff(diff, value1, value2, key_path) ==
    IF diff.values_changed # <<>>
    THEN flatten([i \in 1..Len(diff.values_changed) |->
            handle_nested_diffs(diff.values_changed[i].old_value,
                                diff.values_changed[i].new_value,
                                format_key(diff.values_changed[i].path))])
    ELSE IF diff.iterable_item_removed # <<>> \/ diff.iterable_item_added # <<>>
    THEN [i \in 1..Len(diff.iterable_item_removed) |->
            line(format_key(diff.iterable_item_removed[i].path), "removed",
                 diff.iterable_item_removed[i].item, no_value)]
         \o
         [i \in 1..Len(diff.iterable_item_added) |->
            line(format_key(diff.iterable_item_added[i].path), "added",
                 diff.iterable_item_added[i].item, no_value)]
    ELSE <<line(<<>>, "whole", value1, value2)>>

(* ------------------------------ json.dumps ----------------------------- *)

RECURSIVE join(_, _)
join(parts, sep) ==
    IF parts = <<>> THEN <<>>
    ELSE IF Len(parts) = 1 THEN parts[1]
    ELSE parts[1] \o sep \o join(Tail(parts), sep)

\* json.dumps(v, indent=2) without the white space of the indentation: the
\* characters of the JSON text (no character of the model needs escaping).
RECURSIVE json_dumps(_)
json_dumps(v) ==
    CASE v.t = "str"  -> <<"\"">> \o v.s \o <<"\"">>
      [] v.t = "list" -> <<"[">>
                         \o join([i \in 1..Len(v.items) |-> json_dumps(v.items[i])],
                                 <<",">>)
                         \o <<"]">>
      [] OTHER        -> <<"{">>
                         \o join([i \in 1..Len(v.keys) |->
                                    <<"\"">> \o v.keys[i] \o <<"\"", ":">>
                                    \o json_dumps(v.items[i])],
                                 <<",">>)
                         \o <<"}">>

(* ------------- compare_tfvars_data / compare_properties_data ----------- *)

\* A lookup that takes any key spelled like `key` up to letter case.
get_ignoring_case(d, key) ==
    IF \E k \in DOMAIN d : lower(k) = lower(key)
    THEN d[CHOOSE k \in DOMAIN d : lower(k) = lower(key)]
    ELSE Str(UNDEFINED)

\* dict.get(key, "undefined") on a document (a function from keys to values)
get(d, key) == IF key \in DOMAIN d THEN d[key] ELSE Str(UNDEFINED)

\* The document passed through unfiltered.
filtered_nothing(d) == d

\* {k: v for k, v in data.items() if k != 'compareIdentifier'}
filtered(d) == [k \in (DOMAIN d) \ {COMPARE_IDENTIFIER} |-> d[k]]

\* sorted(all_keys, key=str.lower) over a set: the sort is stable, so keys
\* whose lower-cased forms are equal stay in the order in which the set
\* enumerates them, which Python does not fix for strings (it follows the
\* per-process string hash).  Every enumeration order is an outcome.
\* sorted(all_keys) without key=str.lower: code point order.
RECURSIVE sorted_orders_case_sensitive(_)
sorted_orders_case_sensitive(S) ==
    IF S = {} THEN {<<>>}
    ELSE LET least == {k \in S : \A j \in S : str_le(k, j)}
         IN UNION {{<<k>> \o rest : rest \in sorted_orders_case_sensitive(S \ {k})} :
                     k \in least}

RECURSIVE sorted_orders(_)
sorted_orders(S) ==
    IF S = {} THEN {<<>>}
    ELSE LET least == {k \in S : \A j \in S : str_le(lower(k), lower(j))}
         IN UNION {{<<k>> \o rest : rest \in sorted_orders(S \ {k})} : k \in least}

zero_summary == [equal |-> 0, undefined |-> 0, red |-> 0, blue |-> 0]

status_text(text, env) == [text |-> text, env |-> env]

\* A slip in the undefined branches: the row counted as equal.
counter_of_undefined_as_equal(row_class) ==
    CASE row_class = "blue"   -> "blue"
      [] row_class = "red"    -> "red"
      [] row_class = "equal"  -> "equal"
      [] row_class = "yellow" -> "equal"

\* The counter the branch that sets row_class increments:
\* summary["blue" if row_class == "blue" else "red"] += 1,
\* summary["equal"] += 1, summary["undefined"] += 1.
counter_of(row_class) ==
    CASE row_class = "blue"   -> "blue"
      [] row_class = "red"    -> "red"
      [] row_class = "equal"  -> "equal"
      [] row_class = "yellow" -> "undefined"

\* One pass of the loop body for `key`: the row appended to
\* comparison_results.
compare_key(d1, d2, key, e1, e2) ==
    LET value1   == get(d1, key)
        value2   == get(d2, key)
        key_path == key
        diff     == DeepDiff(value1, value2)
        row(exact_diff, row_class, status) ==
            [key        |-> key,
             value1     |-> json_dumps(value1),
             value2     |-> json_dumps(value2),
             exact_diff |-> exact_diff,
             row_class  |-> row_class,
             status     |-> status]
    IN IF value1 # Str(UNDEFINED) /\ value2 # Str(UNDEFINED)
       THEN IF truthy(diff)
            THEN IF is_environment_specific(key_path, e1, e2)
                 THEN row(extract_diff(diff, value1, value2, key_path), "blue",
                          status_text("Values differ as expected for environments", <<>>))
                 ELSE row(extract_diff(diff, value1, value2, key_path), "red",
                          status_text("Unexpected difference, please review", <<>>))
            ELSE row(<<>>, "equal", status_text("Equal", <<>>))
       ELSE IF value1 = Str(UNDEFINED)
       THEN row(<<line(key, "not_defined", Str(upper(e1)), no_value)>>, "yellow",
                status_text("Not defined in", upper(e1)))
       ELSE row(<<line(key, "not_defined", Str(upper(e2)), no_value)>>, "yellow",
                status_text("Not defined in", upper(e2)))

\* The documents the loop of the running function reads.
loop_data(d) == IF fn = "compare_tfvars_data" THEN filtered(d) ELSE d

(* The call of compare_tfvars_data up to its loop (lines 175-181). *)
compare_tfvars_data_enter ==
    /\ pc = "call"
    /\ fn = "compare_tfvars_data"
    /\ \E order \in sorted_orders((DOMAIN filtered(data1)) \cup (DOMAIN filtered(data2))) :
          all_keys' = order
    /\ comparison_results' = <<>>
    /\ summary' = zero_summary
    /\ idx' = 1
    /\ pc' = "loop"
    /\ UNCHANGED <<fn, data1, data2, env1, env2, first_run, outer>>

(* The call of compare_properties_data up to its loop (lines 236-239). *)
compare_properties_data_enter ==
    /\ pc = "call"
    /\ fn = "compare_properties_data"
    /\ \E order \in sorted_orders((DOMAIN data1) \cup (DOMAIN data2)) :
          all_keys' = order
    /\ comparison_results' = <<>>
    /\ summary' = zero_summary
    /\ idx' = 1
    /\ pc' = "loop"
    /\ UNCHANGED <<fn, data1, data2, env1, env2, first_run, outer>>

(* One iteration of `for key in all_keys`. *)
loop_body ==
    /\ pc = "loop"
    /\ idx <= Len(all_keys)
    /\ LET r == compare_key(loop_data(data1), loop_data(data2), all_keys[idx],
                            env1, env2)
       IN /\ comparison_results' = Append(comparison_results, r)
          /\ summary' = [summary EXCEPT ![counter_of(r.row_class)] = @ + 1]
    /\ idx' = idx + 1
    /\ UNCHANGED <<fn, data1, data2, env1, env2, pc, all_keys, first_run, outer>>

(* return comparison_results, summary *)
return_results ==
    /\ pc = "loop"
    /\ idx > Len(all_keys)
    /\ pc' = "done"
    /\ UNCHANGED <<fn, data1, data2, env1, env2, all_keys, idx,
                   comparison_results, summary, first_run, outer>>

(* A second run of the program on the same documents and labels: what the  *)
(* first run returned is kept aside and the function is called again.      *)
run_again ==
    /\ pc = "done"
    /\ ~first_run.done
    /\ first_run' = [done |-> TRUE, results |-> comparison_results,
                     summary |-> summary]
    /\ pc' = "call"
    /\ all_keys' = <<>>
    /\ idx' = 0
    /\ comparison_results' = <<>>
    /\ summary' = zero_summary
    /\ UNCHANGED <<fn, data1, data2, env1, env2, outer>>

(* ------------------------------ the report ----------------------------- *)

\* The texts the report is put together from.
T_amp  == <<"&","a","m","p",";">>
T_quot == <<"&","q","u","o","t",";">>
T_x27  == <<"&","#","x","2","7",";">>
T_gt   == <<"&","g","t",";">>
T_lt   == <<"&","l","t",";">>
T_arrow              == <<" ","=",">"," ">>
T_was_removed        == <<" ","w","a","s"," ","r","e","m","o","v","e","d">>
T_was_added          == <<" ","w","a","s"," ","a","d","d","e","d">>
T_is_not_defined_in  == <<" ","i","s"," ","n","o","t"," ","d","e","f","i","n","e","d"," ","i","n"," ">>
T_collapse           == <<"c","o","l","l","a","p","s","e","-">>
T_properties         == <<"p","r","o","p","e","r","t","i","e","s">>
T_tfvars             == <<"t","f","v","a","r","s">>
T_Configuration      == <<"C","o","n","f","i","g","u","r","a","t","i","o","n">>

\* escape_table
escape_table ==
    [c \in {"&", "\"", "'", ">", "<"} |->
        CASE c = "&"  -> T_amp
          [] c = "\"" -> T_quot
          [] c = "'"  -> T_x27
          [] c = ">"  -> T_gt
          [] c = "<"  -> T_lt]

\* escape_table.get(c, c)
escape_char(c) == IF c \in DOMAIN escape_table THEN escape_table[c] ELSE <<c>>

\* "".join(escape_table.get(c, c) for c in text)
RECURSIVE escape_html(_)
escape_html(text) ==
    IF text = <<>> THEN <<>>
    ELSE escape_char(Head(text)) \o escape_html(Tail(text))

\* text.replace('/', '-').replace(' ', '-').replace(',', '').replace('(', '')
\*     .replace(')', '')
sanitize_id(text) ==
    replace(replace(replace(replace(replace(text,
        <<"/">>, <<"-">>), <<" ">>, <<"-">>), <<",">>, <<>>), <<"(">>, <<>>),
        <<")">>, <<>>)

\* repr() of a string without backslashes: in double quotes when it holds
\* "'" and no '"', else in single quotes with every "'" escaped.
repr_str(s) ==
    IF (\E i \in 1..Len(s) : s[i] = "'") /\ (\A i \in 1..Len(s) : s[i] # "\"")
    THEN <<"\"">> \o s \o <<"\"">>
    ELSE <<"'">> \o replace(s, <<"'">>, <<"\\", "'">>) \o <<"'">>

\* repr() of a parsed value
RECURSIVE py_repr(_)
py_repr(v) ==
    CASE v.t = "str"  -> repr_str(v.s)
      [] v.t = "list" -> <<"[">>
                         \o join([i \in 1..Len(v.items) |-> py_repr(v.items[i])],
                                 <<",", " ">>)
                         \o <<"]">>
      [] OTHER        -> <<"{">>
                         \o join([i \in 1..Len(v.keys) |->
                                    repr_str(v.keys[i]) \o <<":", " ">>
                                    \o py_repr(v.items[i])],
                                 <<",", " ">>)
                         \o <<"}">>

\* What an f-string writes for {value}: str(value)
py_str(v) == IF v.t = "str" THEN v.s ELSE py_repr(v)

\* The text of one line of exact_diff.
line_text(l) ==
    CASE l.kind = "arrow"   -> l.key \o <<":", " ">> \o py_str(l.old) \o T_arrow
                               \o py_str(l.new)
      [] l.kind = "removed" -> l.key \o <<":", " ">> \o py_str(l.old) \o T_was_removed
      [] l.kind = "added"   -> l.key \o <<":", " ">> \o py_str(l.old) \o T_was_added
      [] l.kind = "whole"   -> py_str(l.old) \o T_arrow \o py_str(l.new)
      [] OTHER              -> l.key \o T_is_not_defined_in \o l.old.s

\* "\n".join(diffs)
exact_diff_text(exact_diff) ==
    join([i \in 1..Len(exact_diff) |-> line_text(exact_diff[i])], <<"\n">>)

\* Python's None, and the truth value of a label or of a compareIdentifier.
NONE == [t |-> "None", s |-> <<>>, items |-> <<>>, keys |-> <<>>]
py_bool(v) == v # NONE /\ (v.s # <<>> \/ v.items # <<>> \/ v.keys # <<>>)

\* One <tr> of the table: the texts embedded in its cells.
table_row(comparison) ==
    [row_class  |-> comparison.row_class,
     key        |-> escape_html(comparison.key),
     value1     |-> escape_html(comparison.value1),
     value2     |-> escape_html(comparison.value2),
     exact_diff |-> IF comparison.exact_diff # <<>>
                    THEN escape_html(exact_diff_text(comparison.exact_diff))
                    ELSE <<>>,
     status     |-> comparison.status]

\* The accordion item: the texts embedded in its markup.  kind "alert" is
\* the item of a missing file or of an empty comparison, kind "table" the
\* item with the statistics and the table.  `results` is <<>> for None and
\* for the empty list, which `not comparison_results` does not tell apart.
generate_accordion_item(section, subsection, results, counts, e1, e2, missing_in_env, identifier) ==
    LET accordion_id == T_collapse \o sanitize_id(lower(section)) \o <<"-">>
                        \o sanitize_id(lower(subsection))
        title == IF py_bool(identifier)
                 THEN subsection \o <<" ", "(">> \o py_str(identifier)
                      \o <<")">>
                 ELSE subsection
    IN IF py_bool(missing_in_env) \/ results = <<>>
       THEN [kind |-> "alert", section |-> section, accordion_id |-> accordion_id, title |-> title,
             alert |-> IF py_bool(missing_in_env)
                       THEN [text |-> "File is missing in",
                             env |-> upper(missing_in_env.s)]
                       ELSE [text |-> "No data available", env |-> <<>>],
             stats |-> zero_summary, env1 |-> <<>>, env2 |-> <<>>,
             rows |-> <<>>]
       ELSE [kind |-> "table", section |-> section, accordion_id |-> accordion_id, title |-> title,
             alert |-> [text |-> "", env |-> <<>>],
             stats |-> counts, env1 |-> upper(e1), env2 |-> upper(e2),
             rows |-> [i \in 1..Len(results) |-> table_row(results[i])]]

(* --------------------------------- main -------------------------------- *)

T_dot_properties == <<".","p","r","o","p","e","r","t","i","e","s">>
FN_json   == <<"c","o","n","f","i","g",".","j","s","o","n">>
FN_tfvars == <<"w","o","r","k","s","p","a","c","e","_","v","a","r","s",".","t","f","v","a","r","s">>

\* main is not running.
no_output == [written |-> FALSE, tabs |-> <<>>, summary |-> <<>>,
              filled |-> FALSE, body |-> <<>>]

\* There is no temp.html.
no_temp == [exists |-> FALSE, content |-> <<>>]

no_main ==
    /\ mode = "none"
    /\ dir1 = <<>> /\ dir2 = <<>>
    /\ main_data1 = <<>> /\ main_data2 = <<>>
    /\ units = <<>>
    /\ unit_i = 0
    /\ main_pc = "none"
    /\ compare_identifier = NONE
    /\ all_content = <<>>
    /\ output_file = no_output
    /\ exit_status = -1
    /\ temp_html = no_temp

\* The file at a path: a path that does not exist cannot be opened.  dir1
\* and dir2 hold the files of the first and of the second environment
\* under the names the mode reads (json_file1_path and json_file2_path, the
\* two workspace_vars.<env>.tfvars, the files of the two directories).
file_at(dir, name) == IF name \in DOMAIN dir THEN dir[name] ELSE unopenable_file

\* [f for f in os.listdir(path) if f.endswith(".properties")]
properties_files(dir) ==
    {f \in DOMAIN dir :
        /\ Len(f) >= Len(T_dot_properties)
        /\ SubSeq(f, Len(f) - Len(T_dot_properties) + 1, Len(f)) = T_dot_properties}

\* The orders in which a for loop may go through a set of strings.
RECURSIVE iteration_orders(_)
iteration_orders(S) ==
    IF S = {} THEN {<<>>}
    ELSE UNION {{<<f>> \o rest : rest \in iteration_orders(S \ {f})} : f \in S}

\* The document a dict value holds, as the comparison functions read it.
doc_of(v) == [k \in Range(v.keys) |-> dict_get(v, k)]

\* d.get(k) and d.get(k, {}) on a dict value
get_or(d, k, default) == IF k \in Range(d.keys) THEN dict_get(d, k) ELSE default
EMPTY_DICT == Dict(<<>>, <<>>)

\* bool(data) and all(isinstance(v, dict) for v in data.values())
is_nested_dict(data) ==
    /\ data.keys # <<>>
    /\ \A i \in 1..Len(data.items) : data.items[i].t = "dict"

unit(section, subsection, nested) ==
    [section |-> section, subsection |-> subsection, nested |-> nested]

\* The comparisons of JSON mode in loop order: one for each subsection of a
\* nested section, one ("Configuration") for any other section.
json_units(data) ==
    flatten([i \in 1..Len(data.keys) |->
        IF data.items[i].t = "dict" /\ is_nested_dict(data.items[i])
        THEN [j \in 1..Len(data.items[i].keys) |->
                 unit(data.keys[i], data.items[i].keys[j], TRUE)]
        ELSE <<unit(data.keys[i], T_Configuration, FALSE)>>])

\* The template with {summary} (and {tabs}) replaced, {body} still in it.
template_written(sections) ==
    [written |-> TRUE, tabs |-> sections,
     summary |-> <<upper(env1), upper(env2)>>, filled |-> FALSE, body |-> <<>>]

exit_main ==
    /\ main_pc' = "exit"
    /\ exit_status' = 1

\* The call of a comparison function from main.
call_compare(f, d1, d2) ==
    /\ fn' = f
    /\ data1' = d1
    /\ data2' = d2
    /\ pc' = "call"
    /\ main_pc' = "compare"

(* main up to its loop: JSON mode lines 545-570, properties mode lines       *)
(* 642-669, tfvars mode lines 722-732.                                       *)
main_start ==
    /\ main_pc = "start"
    /\ mode \in {"json", "properties", "tfvars"}
    /\ UNCHANGED <<env1, env2, all_keys, idx, comparison_results, summary,
                   first_run, probe, mode, dir1, dir2, compare_identifier,
                   all_content, temp_html>>
    /\ CASE mode = "json" ->
              LET r1 == parse_json(file_at(dir1, FN_json))
                  r2 == parse_json(file_at(dir2, FN_json))
              IN IF ~r1.returned \/ ~r2.returned \/ r1.document.t # "dict"
                 THEN /\ exit_main
                      /\ UNCHANGED <<fn, data1, data2, pc, main_data1, main_data2,
                                     units, unit_i, output_file>>
                 ELSE /\ main_data1' = r1.document
                      /\ main_data2' = r2.document
                      /\ output_file' = template_written(r1.document.keys)
                      /\ units' = json_units(r1.document)
                      /\ unit_i' = 1
                      /\ main_pc' = "loop"
                      /\ UNCHANGED <<fn, data1, data2, pc, exit_status>>
         [] mode = "properties" ->
              /\ output_file' = template_written(<<>>)
              /\ \E order \in iteration_orders(properties_files(dir1)
                                               \cup properties_files(dir2)) :
                    units' = [i \in 1..Len(order) |->
                                 unit(T_properties, order[i], FALSE)]
              /\ unit_i' = 1
              /\ main_pc' = "loop"
              /\ UNCHANGED <<fn, data1, data2, pc, main_data1, main_data2,
                             exit_status>>
         [] OTHER ->
              LET r1 == parse_tfvars(file_at(dir1, FN_tfvars))
                  r2 == parse_tfvars(file_at(dir2, FN_tfvars))
              IN IF \/ FN_tfvars \notin DOMAIN dir1 \/ FN_tfvars \notin DOMAIN dir2
                    \/ ~r1.returned \/ ~r2.returned
                 THEN /\ exit_main
                      /\ UNCHANGED <<fn, data1, data2, pc, main_data1, main_data2,
                                     units, unit_i, output_file>>
                 ELSE /\ call_compare("compare_tfvars_data",
                                      doc_of(r1.document), doc_of(r2.document))
                      /\ units' = <<unit(T_tfvars, T_Configuration, FALSE)>>
                      /\ unit_i' = 1
                      /\ UNCHANGED <<main_data1, main_data2, output_file,
                                     exit_status>>

(* One pass of the loop over the properties files (lines 670-697) or over    *)
(* the sections and subsections of the first document (lines 570-613), up    *)
(* to the call of the comparison function.                                   *)
main_unit ==
    /\ main_pc = "loop"
    /\ unit_i <= Len(units)
    /\ mode \in {"json", "properties", "tfvars"}
    /\ UNCHANGED <<env1, env2, all_keys, idx, comparison_results, summary,
                   first_run, probe, mode, dir1, dir2, main_data1, main_data2,
                   units, output_file, temp_html>>
    /\ LET u == units[unit_i]
       IN IF mode = "properties"
          THEN LET f  == u.subsection
                   r1 == parse_properties(file_at(dir1, f))
                   r2 == parse_properties(file_at(dir2, f))
               IN IF f \notin properties_files(dir2) \/ f \notin properties_files(dir1)
                  THEN /\ all_content' = Append(all_content,
                              generate_accordion_item(T_properties, f, <<>>,
                                  zero_summary, env1, env2,
                                  IF f \notin properties_files(dir2)
                                  THEN Str(env2) ELSE Str(env1), NONE))
                       /\ unit_i' = unit_i + 1
                       /\ UNCHANGED <<fn, data1, data2, pc, main_pc,
                                      compare_identifier, exit_status>>
                  ELSE IF ~r1.returned \/ ~r2.returned
                  THEN /\ exit_main
                       /\ UNCHANGED <<fn, data1, data2, pc, unit_i,
                                      compare_identifier, all_content>>
                  ELSE /\ call_compare("compare_properties_data",
                                       r1.document, r2.document)
                       /\ UNCHANGED <<unit_i, compare_identifier, all_content,
                                      exit_status>>
          ELSE LET v1 == dict_get(main_data1, u.section)
                   a1 == IF u.nested THEN dict_get(v1, u.subsection) ELSE v1
                   \* data2[section].get(subsection, {}) raises KeyError for a
                   \* section the second document lacks, AttributeError for
                   \* one that is no dict; data2.get(section, {}) does not.
                   raises == \/ main_data2.t # "dict"
                             \/ u.nested /\ u.section \notin Range(main_data2.keys)
                             \/ u.nested /\ dict_get(main_data2, u.section).t # "dict"
                   a2 == IF u.nested
                         THEN get_or(dict_get(main_data2, u.section), u.subsection,
                                     EMPTY_DICT)
                         ELSE get_or(main_data2, u.section, EMPTY_DICT)
               IN \* data.items() of a value that is no dict raises inside
                  \* compare_tfvars_data, which ends in sys.exit(1)
                  IF raises \/ a1.t # "dict" \/ a2.t # "dict"
                  THEN /\ exit_main
                       /\ UNCHANGED <<fn, data1, data2, pc, unit_i,
                                      compare_identifier, all_content>>
                  ELSE /\ compare_identifier' = get_or(a1, COMPARE_IDENTIFIER, NONE)
                       /\ call_compare("compare_tfvars_data", doc_of(a1), doc_of(a2))
                       /\ UNCHANGED <<unit_i, all_content, exit_status>>

(* The comparison has returned: its accordion item is added (lines 593-602, *)
(* 616-625, 698-705, 749-756).                                               *)
main_render ==
    /\ main_pc = "compare"
    /\ pc = "done"
    /\ all_content' = Append(all_content,
           generate_accordion_item(units[unit_i].section, units[unit_i].subsection,
                                   comparison_results, summary, env1, env2, NONE,
                                   compare_identifier))
    /\ output_file' = IF mode = "tfvars" THEN template_written(<<>>)
                      ELSE output_file
    /\ compare_identifier' = NONE
    /\ unit_i' = unit_i + 1
    /\ main_pc' = "loop"
    /\ pc' = "idle"
    /\ UNCHANGED <<fn, data1, data2, env1, env2, all_keys, idx,
                   comparison_results, summary, first_run, probe, mode, dir1,
                   dir2, main_data1, main_data2, units, exit_status, temp_html>>

(* After the loop: {body} is replaced by the items (lines 632-638, 708-718, *)
(* 759-769) and main returns.                                                *)
main_finish ==
    /\ main_pc = "loop"
    /\ unit_i > Len(units)
    /\ mode \in {"json", "properties", "tfvars"}
    /\ output_file' = [output_file EXCEPT !.filled = TRUE, !.body = all_content]
    /\ main_pc' = "exit"
    /\ exit_status' = 0
    /\ UNCHANGED <<fn, data1, data2, env1, env2, pc, all_keys, idx,
                   comparison_results, summary, first_run, probe, mode, dir1,
                   dir2, main_data1, main_data2, units, unit_i,
                   compare_identifier, all_content, temp_html>>

(* ------------------------------ inputs --------------------------------- *)

\* Only the comparison runs: no function is called on its own.
no_probe == [f |-> "none", args |-> <<>>, done |-> FALSE, result |-> <<>>]

Keys == {K_max_retries, K_Max_Retries, K_s3_bucket_url, COMPARE_IDENTIFIER}

\* The labels of the two sides; in the last two pairs one label is empty.
EnvPairs == {<<E_dev, E_prod>>, <<E_ES, E_uat>>, <<E_dev, <<>>>>, <<<<>>, E_prod>>}

L_ab  == List(<<Str(S_a), Str(S_b)>>)
L_ba  == List(<<Str(S_b), Str(S_a)>>)
L_abb == List(<<Str(S_a), Str(S_b), Str(S_b)>>)
L_a   == List(<<Str(S_a)>>)
D_xy  == Dict(<<S_x, S_y>>, <<Str(S_a), Str(S_b)>>)
D_yx  == Dict(<<S_y, S_x>>, <<Str(S_b), Str(S_a)>>)
D_x   == Dict(<<S_x>>, <<Str(S_a)>>)
D_xb  == Dict(<<S_x>>, <<Str(S_b)>>)
D_xl  == Dict(<<S_x>>, <<L_ab>>)
D_xl2 == Dict(<<S_x>>, <<L_ba>>)

\* Values of the documents with several keys: the first document holds one
\* sample value, the second either of two.
WideValues(side) == IF side = 1 THEN {Str(S_1_2)} ELSE {Str(S_1_2), Str(S_1_3)}

\* Values of the documents with one key.
DeepValues ==
    {Str(UNDEFINED), Str(S_1_2), Str(S_1_2_3), Str(S_1_3),
     Str(S_v1_2_3), Str(S_v1_3_3),
     L_ab, L_ba, L_abb, L_a, D_xy, D_yx, D_x, D_xb, D_xl, D_xl2}

\* parse_properties only yields string values.
values_for(f, n, side) ==
    LET pool == IF n = 1 THEN DeepValues ELSE WideValues(side)
    IN IF f = "compare_properties_data" THEN {v \in pool : v.t = "str"} ELSE pool

absent == [t |-> "absent", s |-> <<>>, items |-> <<>>, keys |-> <<>>]

\* What one key holds on the two sides: a value or nothing, not nothing twice.
sides(V1, V2) == {c \in (V1 \cup {absent}) \X (V2 \cup {absent}) :
                     c[1] # absent \/ c[2] # absent}

document(U, c, side) == [k \in {u \in U : c[u][side] # absent} |-> c[k][side]]

Init ==
    /\ fn \in {"compare_tfvars_data", "compare_properties_data"}
    /\ \E e \in EnvPairs : env1 = e[1] /\ env2 = e[2]
    /\ \E U \in SUBSET Keys :
          /\ Cardinality(U) <= MaxKeys
          /\ \E c \in [U -> sides(values_for(fn, Cardinality(U), 1),
                                    values_for(fn, Cardinality(U), 2))] :
                /\ data1 = document(U, c, 1)
                /\ data2 = document(U, c, 2)
    /\ pc = "call"
    /\ all_keys = <<>>
    /\ idx = 0
    /\ comparison_results = <<>>
    /\ summary = zero_summary
    /\ first_run = [done |-> FALSE, results |-> <<>>, summary |-> zero_summary]
    /\ probe = no_probe
    /\ no_main

Next ==
    \/ compare_tfvars_data_enter
    \/ compare_properties_data_enter
    \/ loop_body
    \/ return_results
    \/ run_again

Spec == Init /\ [][Next]_vars

(* ------------------ the functions called on their own ------------------ *)

\* The lists of at most MaxLen items, an item a string or a list.
ListItems == {Str(S_a), Str(S_b), L_a, L_ab}

Lists == UNION {[1..n -> ListItems] : n \in 0..MaxLen}

\* The keys extract_diff passes for the paths root and root['x'].
BaseKeys == {format_key(ROOT), format_key(path_key(ROOT, S_x))}

(* handle_nested_diffs(old_value, new_value, base_key) on two lists *)
call_handle_nested_diffs ==
    /\ probe.f = "handle_nested_diffs"
    /\ ~probe.done
    /\ probe' = [probe EXCEPT
                    !.done = TRUE,
                    !.result = handle_nested_diffs(probe.args[1], probe.args[2],
                                                   probe.args[3])]
    /\ UNCHANGED <<fn, data1, data2, env1, env2, pc, all_keys, idx,
                   comparison_results, summary, first_run, main_vars>>

\* No comparison runs.
idle ==
    /\ fn = "none"
    /\ data1 = <<>> /\ data2 = <<>>
    /\ pc = "idle"
    /\ all_keys = <<>>
    /\ idx = 0
    /\ comparison_results = <<>>
    /\ summary = zero_summary
    /\ first_run = [done |-> FALSE, results |-> <<>>, summary |-> zero_summary]

\* The lines of at most MaxLineLen characters of a small alphabet.
LineChars == {" ", "#", "=", "k", "v"}
Lines == UNION {[1..n -> LineChars] : n \in 0..MaxLineLen}

\* Lines of properties files: an entry, a comment after white space, a blank
\* line, an entry with white space around its parts, one with a second "=",
\* and a line without "=".
LINE_entry    == <<"k","=","v">>
LINE_comment  == <<" ","#"," ","c","o","m","m","e","n","t">>
LINE_blank    == <<>>
LINE_spaced   == <<" ","k","v"," ","="," ","v","k"," ">>
LINE_two_eq   == <<"k","e","y","=","v","a","l","u","e","=","e","x","t","r","a">>
LINE_no_eq    == <<"k","v">>
SampleLines ==
    {LINE_entry, LINE_comment, LINE_blank, LINE_spaced, LINE_two_eq, LINE_no_eq}

\* Files of two lines: a sample line before or after any short line.
PropertiesFiles ==
    {text_file(<<a, b>>) : a \in SampleLines, b \in Lines}
    \cup {text_file(<<b, a>>) : a \in SampleLines, b \in Lines}

(* parse_properties(file_path) on the file at file_path *)
call_parse_properties ==
    /\ probe.f = "parse_properties"
    /\ ~probe.done
    /\ probe' = [probe EXCEPT !.done = TRUE,
                              !.result = parse_properties(probe.args[1])]
    /\ UNCHANGED <<fn, data1, data2, env1, env2, pc, all_keys, idx,
                   comparison_results, summary, first_run, main_vars>>

(* ------------------------- fetch_aws_config.py ------------------------- *)

\* What a call does: it returns a value or it raises.
value_returned(v) == [raised |-> FALSE, value |-> v]
raised == [raised |-> TRUE, value |-> NONE]

T_envs == <<"e","n","v","s">>

\* load_env_config(env_index) on the aws_env_config.json `file`.  A file
\* that is not there raises FileNotFoundError and a text that is no JSON
\* raises JSONDecodeError: the two exceptions the function catches.
load_env_config(file, env_index) ==
    IF file.kind = "unopenable" THEN value_returned(NONE)
    ELSE IF file.kind = "text" /\ strip(join(file.lines, <<"\n">>)) = <<>>
    THEN value_returned(NONE)
    ELSE IF file.kind # "doc" THEN value_returned(NONE)
    ELSE LET config == file.doc
             envs   == get_or(config, T_envs, List(<<>>))
             \* len(envs)
             n      == CASE envs.t = "list" -> Len(envs.items)
                         [] envs.t = "dict" -> Len(envs.keys)
                         [] OTHER           -> Len(envs.s)
         IN \* config.get of a value that is no dict: AttributeError
            IF config.t # "dict" THEN raised
            ELSE IF ~(0 <= env_index /\ env_index < n) THEN value_returned(NONE)
            ELSE CASE envs.t = "list" -> value_returned(envs.items[env_index + 1])
                   [] envs.t = "str"  -> value_returned(Str(<<envs.s[env_index + 1]>>))
                   \* envs[env_index] of a dict: KeyError
                   [] OTHER           -> raised

\* The aws_env_config.json files of the calls: none, an empty one, one of
\* white space, one that is no JSON, and JSON texts with two, one and no
\* environments, without "envs", with an object as "envs", and with an
\* array at the top.
MaxEnvIndex == 2
EnvConfigFiles ==
    {unopenable_file, text_file(<<>>), text_file(<<<<" ">>, <<"\t">>>>),
     text_file(<<LINE_no_eq>>), malformed_file,
     doc_file(Dict(<<T_envs>>, <<List(<<D_x, D_xy>>)>>)),
     doc_file(Dict(<<T_envs>>, <<List(<<D_xb>>)>>)),
     doc_file(Dict(<<T_envs>>, <<List(<<>>)>>)),
     doc_file(EMPTY_DICT),
     doc_file(Dict(<<T_envs>>, <<D_x>>)),
     doc_file(List(<<D_x>>))}

(* load_env_config(env_index) *)
call_load_env_config ==
    /\ probe.f = "load_env_config"
    /\ ~probe.done
    /\ probe' = [probe EXCEPT !.done = TRUE,
                              !.result = load_env_config(probe.args[1],
                                                         probe.args[2])]
    /\ UNCHANGED <<fn, data1, data2, env1, env2, pc, all_keys, idx,
                   comparison_results, summary, first_run, main_vars>>

\* d[k] = v on a dict value
dict_put(d, k, v) ==
    IF k \in Range(d.keys)
    THEN Dict(d.keys, [i \in 1..Len(d.keys) |->
                          IF d.keys[i] = k THEN v ELSE d.items[i]])
    ELSE Dict(Append(d.keys, k), Append(d.items, v))

\* s.strip('/')
RECURSIVE strip_slashes(_)
strip_slashes(s) ==
    IF s # <<>> /\ Head(s) = "/" THEN strip_slashes(Tail(s))
    ELSE IF s # <<>> /\ s[Len(s)] = "/" THEN strip_slashes(SubSeq(s, 1, Len(s) - 1))
    ELSE s

\* s.replace(old, '', 1), old not empty
RECURSIVE remove_first(_, _)
remove_first(s, old) ==
    IF Len(s) < Len(old) THEN s
    ELSE IF SubSeq(s, 1, Len(old)) = old THEN SubSeq(s, Len(old) + 1, Len(s))
    ELSE <<s[1]>> \o remove_first(Tail(s), old)

T_parameter_prefix_ == <<"p","a","r","a","m","e","t","e","r","_","p","r","e","f","i","x","_">>

\* Parameter Store as get_parameters_by_path shows it: for a path the
\* pages of its parameters, every page but the last with a NextToken, and
\* the number of the call that raises (0: none does).
no_parameters == [pages |-> <<>>, fail_at |-> 0]
response_of(ssm, path) == IF path \in DOMAIN ssm THEN ssm[path] ELSE no_parameters

\* The loop over the pages that stops after the first response.
get_parameters_first_page(response) ==
    IF response.fail_at = 1 THEN raised
    ELSE value_returned(IF response.pages = <<>> THEN <<>> ELSE response.pages[1])

\* The while loop of lines 223-234: the parameters of all pages, unless a
\* call raises.
get_parameters(response) ==
    LET calls == IF response.pages = <<>> THEN 1 ELSE Len(response.pages)
    IN IF 1 <= response.fail_at /\ response.fail_at <= calls THEN raised
       ELSE value_returned(flatten(response.pages))

\* {"compareIdentifier": path, **{name without path: value}}, or without
\* compareIdentifier when the paths are the keys
RECURSIVE parameters_dict(_, _, _)
parameters_dict(d, parameters, path) ==
    IF parameters = <<>> THEN d
    ELSE parameters_dict(dict_put(d, remove_first(Head(parameters).Name, path),
                                  Str(Head(parameters).Value)),
                         Tail(parameters), path)

RECURSIVE fetch_parameter_store_loop(_, _, _, _, _)
fetch_parameter_store_loop(all_parameters, prefixes, prefix_index, ssm, use_custom_names) ==
    IF prefix_index > Len(prefixes) THEN all_parameters
    ELSE LET prefix         == strip_slashes(prefixes[prefix_index])
             parameter_path == <<"/">> \o prefix \o <<"/">>
             got            == get_parameters(response_of(ssm, parameter_path))
             key            == IF use_custom_names
                               THEN T_parameter_prefix_ \o str_int(prefix_index)
                               ELSE parameter_path
             only_id        == IF use_custom_names
                               THEN Dict(<<COMPARE_IDENTIFIER>>, <<Str(parameter_path)>>)
                               ELSE EMPTY_DICT
             entry          == IF got.raised \/ got.value = <<>> THEN only_id
                               ELSE parameters_dict(only_id, got.value, parameter_path)
         IN fetch_parameter_store_loop(dict_put(all_parameters, key, entry),
                                       prefixes, prefix_index + 1, ssm,
                                       use_custom_names)

\* fetch_parameter_store_config(prefixes, use_custom_names) over the
\* Parameter Store ssm
fetch_parameter_store_config(prefixes, use_custom_names, ssm) ==
    fetch_parameter_store_loop(EMPTY_DICT, prefixes, 1, ssm, use_custom_names)

\* The calls: at most MaxPrefixes prefixes, written with and without
\* slashes, over stores that hold for each of two paths no parameter, two
\* pages of one parameter, or an empty page before a page of one, and in
\* which the first, the second or no call for a path raises.
MaxPrefixes == 2
PrefixSamples == {<<"a">>, <<"/","a","/">>, <<"b">>}
PathSamples == {<<"/","a","/">>, <<"/","b","/">>}
parameter(path, name, v) == [Name |-> path \o name, Value |-> v]
PageSamples(path) ==
    {<<>>,
     <<<<parameter(path, S_x, S_1_2)>>, <<parameter(path, <<"y","/","x">>, S_1_3)>>>>,
     <<<<>>, <<parameter(path, S_y, S_1_2)>>>>}
Stores ==
    {ssm \in [PathSamples -> [pages : UNION {PageSamples(q) : q \in PathSamples},
                              fail_at : 0..2]] :
        \A q \in PathSamples : ssm[q].pages \in PageSamples(q)}

(* fetch_parameter_store_config(prefixes, use_custom_names) *)
call_fetch_parameter_store_config ==
    /\ probe.f = "fetch_parameter_store_config"
    /\ ~probe.done
    /\ probe' = [probe EXCEPT !.done = TRUE,
                    !.result = fetch_parameter_store_config(probe.args[1],
                                   probe.args[2], probe.args[3])]
    /\ UNCHANGED <<fn, data1, data2, env1, env2, pc, all_keys, idx,
                   comparison_results, summary, first_run, main_vars>>

T_rds_db_instance_ == <<"r","d","s","_","d","b","_","i","n","s","t","a","n","c","e","_">>
T_DBInstanceIdentifier == <<"D","B","I","n","s","t","a","n","c","e","I","d","e","n","t","i","f","i","e","r">>

\* The loop of fetch_rds_config over the instances of all pages in the
\* order describe_db_instances returns them.
RECURSIVE fetch_rds_loop(_, _, _, _, _)
fetch_rds_loop(filtered_instances, instances, instance_index, identifier, use_instance_ids) ==
    IF instances = <<>> THEN filtered_instances
    ELSE LET instance    == Head(instances)
             instance_id == instance.DBInstanceIdentifier
             described   == Dict(<<T_DBInstanceIdentifier>>, <<Str(instance_id)>>)
         IN IF use_instance_ids
            THEN IF instance_id \in Range(identifier)
                 THEN fetch_rds_loop(
                          dict_put(filtered_instances,
                                   T_rds_db_instance_ \o str_int(instance_index + 1),
                                   Dict(<<COMPARE_IDENTIFIER, T_DBInstanceIdentifier>>,
                                        <<Str(instance_id), Str(instance_id)>>)),
                          Tail(instances), instance_index + 1, identifier,
                          use_instance_ids)
                 ELSE fetch_rds_loop(filtered_instances, Tail(instances),
                                     instance_index, identifier, use_instance_ids)
            ELSE fetch_rds_loop(
                     IF instance.ApplicationShortName = identifier
                     THEN dict_put(filtered_instances, instance_id, described)
                     ELSE filtered_instances,
                     Tail(instances), instance_index, identifier, use_instance_ids)

\* fetch_rds_config(identifier, use_instance_ids) over the pages of
\* describe_db_instances
fetch_rds_config(identifier, use_instance_ids, pages) ==
    fetch_rds_loop(EMPTY_DICT, flatten(pages), 0, identifier, use_instance_ids)

\* The calls: the instances a and b, tagged with the application x, on one
\* page or two in either order, or b alone; the configured identifiers are
\* up to MaxInstanceIds different ones of a, b and y (no such instance).
MaxInstanceIds == 2
db_instance(id) == [DBInstanceIdentifier |-> id, ApplicationShortName |-> S_x]
InstancePages ==
    {<<<<db_instance(S_a), db_instance(S_b)>>>>,
     <<<<db_instance(S_b)>>, <<db_instance(S_a)>>>>,
     <<<<db_instance(S_a)>>, <<db_instance(S_b)>>>>,
     <<<<db_instance(S_b)>>>>}
InstanceIdLists ==
    UNION {{ids \in [1..n -> {S_a, S_b, S_y}] :
               \A i, j \in 1..n : i # j => ids[i] # ids[j]} : n \in 0..MaxInstanceIds}

(* fetch_rds_config(identifier, use_instance_ids) *)
call_fetch_rds_config ==
    /\ probe.f = "fetch_rds_config"
    /\ ~probe.done
    /\ probe' = [probe EXCEPT !.done = TRUE,
                    !.result = fetch_rds_config(probe.args[1], probe.args[2],
                                                probe.args[3])]
    /\ UNCHANGED <<fn, data1, data2, env1, env2, pc, all_keys, idx,
                   comparison_results, summary, first_run, main_vars>>

T_cluster_ == <<"c","l","u","s","t","e","r","_">>
T_slash_service_ == <<"/","s","e","r","v","i","c","e","_">>
T_slash_task_definition == <<"/","t","a","s","k","_","d","e","f","i","n","i","t","i","o","n">>
T_slash_container_definition_slash == <<"/","c","o","n","t","a","i","n","e","r","_","d","e","f","i","n","i","t","i","o","n","/">>
T_serviceName == <<"s","e","r","v","i","c","e","N","a","m","e">>
T_family == <<"f","a","m","i","l","y">>
T_name == <<"n","a","m","e">>

\* ECS as the client shows it: clusterArns is the list list_clusters
\* returns, services[arn] the services of a cluster in the order
\* list_services returns them (serviceName, and taskDefinition or <<>> when
\* the service has none), task_definitions[arn] what
\* describe_task_definition returns.
cluster_arn_of(name) == <<"c","/">> \o name

\* next((arn for arn in clusters if cluster_name in arn), None); <<>> for
\* None
find_cluster_arn(clusters, cluster_name) ==
    IF \E i \in 1..Len(clusters) : contains(clusters[i], cluster_name)
    THEN clusters[CHOOSE i \in 1..Len(clusters) :
                     /\ contains(clusters[i], cluster_name)
                     /\ \A j \in 1..(i - 1) : ~contains(clusters[j], cluster_name)]
    ELSE <<>>

\* describe_services(cluster=cluster_arn, services=[service])['services']
describe_services(ecs, cluster_arn, service) ==
    LET all == ecs.services[cluster_arn]
    IN IF \E i \in 1..Len(all) : all[i].serviceName = service
       THEN <<all[CHOOSE i \in 1..Len(all) : all[i].serviceName = service]>>
       ELSE <<>>

\* The state of the loops: the result so far, the local variable
\* container_definitions (not bound before its first assignment), and
\* whether an exception has ended the loops.
ecs_start == [configs |-> EMPTY_DICT, container_definitions |-> <<>>,
              bound |-> FALSE, failed |-> FALSE]

\* for container_definition in container_definitions: one entry each
RECURSIVE put_container_definitions(_, _, _)
put_container_definitions(configs, key, container_definitions) ==
    IF container_definitions = <<>> THEN configs
    ELSE put_container_definitions(
             dict_put(configs, key \o Head(container_definitions),
                      Dict(<<T_name>>, <<Str(Head(container_definitions))>>)),
             key, Tail(container_definitions))

\* Lines 110-153 for one described service.
ecs_service(st, ecs, cluster_name, cluster_index, service_index, service_config, use_custom_identifier) ==
    LET service_name == service_config.serviceName
        service_key  == cluster_name \o <<"/">> \o service_name
        has_task_definition == service_config.taskDefinition # <<>>
        details == ecs.task_definitions[service_config.taskDefinition]
        task_definition ==
            IF has_task_definition
            THEN Dict(<<COMPARE_IDENTIFIER, T_family>>,
                      <<Str(details.family), Str(details.family)>>)
            ELSE EMPTY_DICT
        container_definitions ==
            IF has_task_definition THEN details.containerDefinitions
            ELSE st.container_definitions
        indexed == T_cluster_ \o str_int(cluster_index) \o T_slash_service_
                       \o str_int(service_index)
        configs ==
            IF use_custom_identifier
            THEN put_container_definitions(
                     dict_put(dict_put(st.configs, indexed,
                                  Dict(<<COMPARE_IDENTIFIER, T_serviceName>>,
                                       <<Str(service_key), Str(service_name)>>)),
                              indexed \o T_slash_task_definition, task_definition),
                     indexed \o T_slash_task_definition
                         \o T_slash_container_definition_slash,
                     container_definitions)
            ELSE put_container_definitions(
                     dict_put(dict_put(st.configs, service_key,
                                  Dict(<<T_serviceName>>, <<Str(service_name)>>)),
                              service_key \o T_slash_task_definition, task_definition),
                     <<"$">> \o service_key \o str_int(cluster_index)
                         \o T_slash_service_ \o str_int(service_index)
                         \o T_slash_task_definition
                         \o T_slash_container_definition_slash,
                     container_definitions)
    IN \* reading container_definitions before any assignment raises
       \* UnboundLocalError
       IF ~has_task_definition /\ ~st.bound
       THEN [st EXCEPT !.failed = TRUE]
       ELSE [configs |-> configs, container_definitions |-> container_definitions,
             bound |-> TRUE, failed |-> FALSE]

\* for service in services (lines 105-153)
RECURSIVE ecs_services_loop(_, _, _, _, _, _, _, _)
ecs_services_loop(st, ecs, cluster_arn, cluster_name, cluster_index, services, service_index, use_custom_identifier) ==
    IF st.failed \/ services = <<>> THEN st
    ELSE LET described == describe_services(ecs, cluster_arn, Head(services))
         IN IF described = <<>>
            THEN ecs_services_loop(st, ecs, cluster_arn, cluster_name,
                                   cluster_index, Tail(services), service_index,
                                   use_custom_identifier)
            ELSE ecs_services_loop(
                     ecs_service(st, ecs, cluster_name, cluster_index,
                                 service_index + 1, described[1],
                                 use_custom_identifier),
                     ecs, cluster_arn, cluster_name, cluster_index,
                     Tail(services), service_index + 1, use_custom_identifier)

\* for cluster_config in cluster_configs (lines 80-153)
RECURSIVE ecs_clusters_loop(_, _, _, _, _)
ecs_clusters_loop(st, ecs, cluster_configs, cluster_index, use_custom_identifier) ==
    IF st.failed \/ cluster_index > Len(cluster_configs) THEN st
    ELSE LET cluster_name  == cluster_configs[cluster_index].clusterName
             service_names == cluster_configs[cluster_index].serviceNames
             cluster_arn   == find_cluster_arn(ecs.clusterArns, cluster_name)
             services      == IF service_names # <<>> THEN service_names
                              ELSE [i \in 1..Len(ecs.services[cluster_arn]) |->
                                       ecs.services[cluster_arn][i].serviceName]
         IN IF cluster_arn = <<>>
            THEN ecs_clusters_loop(st, ecs, cluster_configs, cluster_index + 1,
                                   use_custom_identifier)
            ELSE ecs_clusters_loop(
                     ecs_services_loop(st, ecs, cluster_arn, cluster_name,
                                       cluster_index, services, 0,
                                       use_custom_identifier),
                     ecs, cluster_configs, cluster_index + 1, use_custom_identifier)

\* fetch_ecs_service_config(cluster_configs, use_custom_identifier) over the
\* ECS account ecs: the dict it returns, or the exception that its except
\* clause turns into sys.exit(1).
fetch_ecs_service_config(cluster_configs, use_custom_identifier, ecs) ==
    LET st == ecs_clusters_loop(ecs_start, ecs, cluster_configs, 1,
                                use_custom_identifier)
    IN IF st.failed THEN raised ELSE value_returned(st.configs)

\* The calls: the clusters p and p2 in either order of list_clusters, or
\* one of them alone; p with a service with a task definition and one
\* without, in either order, or with two services with task definitions, or
\* without services; up to MaxClusters configured clusters, with or
\* without configured service names.
MaxClusters == 2
C_p  == <<"p">>
C_p2 == <<"p","2">>
TD_f == <<"t","f">>
TD_g == <<"t","g">>
TaskDefinitions ==
    [d \in {TD_f, TD_g} |->
        IF d = TD_f THEN [family |-> <<"f">>, containerDefinitions |-> <<S_x>>]
        ELSE [family |-> <<"g">>, containerDefinitions |-> <<S_y>>]]
SV_a == [serviceName |-> S_a, taskDefinition |-> TD_f]
SV_b == [serviceName |-> S_b, taskDefinition |-> <<>>]
SV_y == [serviceName |-> S_y, taskDefinition |-> TD_g]
EcsAccounts ==
    {[clusterArns |-> arns,
      services |-> [a \in {cluster_arn_of(C_p), cluster_arn_of(C_p2)} |->
                       IF a = cluster_arn_of(C_p) THEN of_p ELSE <<SV_y>>],
      task_definitions |-> TaskDefinitions] :
        arns \in {<<cluster_arn_of(C_p), cluster_arn_of(C_p2)>>,
                  <<cluster_arn_of(C_p2), cluster_arn_of(C_p)>>,
                  <<cluster_arn_of(C_p)>>, <<cluster_arn_of(C_p2)>>},
        of_p \in {<<SV_a, SV_b>>, <<SV_b, SV_a>>, <<SV_a, SV_y>>, <<>>}}
ClusterConfigs ==
    [clusterName : {C_p, C_p2}, serviceNames : {<<>>, <<S_b>>, <<S_a, S_x>>}]

(* fetch_ecs_service_config(cluster_configs, use_custom_identifier) *)
call_fetch_ecs_service_config ==
    /\ probe.f = "fetch_ecs_service_config"
    /\ ~probe.done
    /\ probe' = [probe EXCEPT !.done = TRUE,
                    !.result = fetch_ecs_service_config(probe.args[1],
                                   probe.args[2], probe.args[3])]
    /\ UNCHANGED <<fn, data1, data2, env1, env2, pc, all_keys, idx,
                   comparison_results, summary, first_run, main_vars>>

InitCalls ==
    /\ idle
    /\ no_main
    /\ env1 = E_dev /\ env2 = E_prod
    /\ \/ \E old \in Lists, new \in Lists, base_key \in BaseKeys :
             probe = [f |-> "handle_nested_diffs",
                      args |-> <<List(old), List(new), base_key>>,
                      done |-> FALSE, result |-> <<>>]
       \/ \E file \in PropertiesFiles :
             probe = [f |-> "parse_properties", args |-> <<file>>,
                      done |-> FALSE, result |-> <<>>]
       \/ \E n \in 0..MaxPrefixes :
          \E prefixes \in [1..n -> PrefixSamples], ssm \in Stores,
             use_custom_names \in BOOLEAN :
             probe = [f |-> "fetch_parameter_store_config",
                      args |-> <<prefixes, use_custom_names, ssm>>,
                      done |-> FALSE, result |-> <<>>]
       \/ \E pages \in InstancePages :
             \/ \E identifier \in InstanceIdLists :
                   probe = [f |-> "fetch_rds_config",
                            args |-> <<identifier, TRUE, pages>>,
                            done |-> FALSE, result |-> <<>>]
             \/ \E identifier \in {S_x, S_y} :
                   probe = [f |-> "fetch_rds_config",
                            args |-> <<identifier, FALSE, pages>>,
                            done |-> FALSE, result |-> <<>>]
       \/ \E n \in 0..MaxClusters :
          \E cluster_configs \in [1..n -> ClusterConfigs], ecs \in EcsAccounts,
             use_custom_identifier \in BOOLEAN :
             probe = [f |-> "fetch_ecs_service_config",
                      args |-> <<cluster_configs, use_custom_identifier, ecs>>,
                      done |-> FALSE, result |-> <<>>]
       \/ \E file \in EnvConfigFiles, env_index \in -1..MaxEnvIndex :
             probe = [f |-> "load_env_config", args |-> <<file, env_index>>,
                      done |-> FALSE, result |-> <<>>]

NextCalls ==
    \/ call_handle_nested_diffs
    \/ call_parse_properties
    \/ call_load_env_config
    \/ call_fetch_ecs_service_config
    \/ call_fetch_rds_config
    \/ call_fetch_parameter_store_config

SpecCalls == InitCalls /\ [][NextCalls]_vars

(* ------------------------------ runs of main --------------------------- *)

\* The texts of the sample files and labels.
E_q_and_a            == <<"q","&","a">>
FN_a                 == <<"a",".","p","r","o","p","e","r","t","i","e","s">>
FN_b_and_c           == <<"b","&","c",".","p","r","o","p","e","r","t","i","e","s">>
FN_notes             == <<"n","o","t","e","s",".","t","x","t">>
LINE_max_retries_1_2 == <<"m","a","x","_","r","e","t","r","i","e","s","=","1",".","2">>
LINE_max_retries_1_3 == <<"m","a","x","_","r","e","t","r","i","e","s"," ","="," ","1",".","3">>
LINE_special         == <<"a","<","b","=","c","&","d","'","e">>
S_a_lt_b             == <<"a","<","b">>
S_ps                 == <<"p","s">>
S_ecs                == <<"e","c","s">>
S_svc                == <<"s","v","c">>

\* The labels of the runs: the second pair has a label with "&".
MainEnvPairs == {<<E_dev, E_prod>>, <<E_ES, E_q_and_a>>}

\* Properties files: well-formed ones, one with "<", "&" and "'" in a key
\* and a value, one with a line without "=" after a well-formed line, an
\* empty one, and one that cannot be opened.
PF_plain      == text_file(<<LINE_max_retries_1_2, LINE_comment>>)
PF_special    == text_file(<<LINE_max_retries_1_3, LINE_special>>)
PF_bad        == text_file(<<LINE_max_retries_1_2, LINE_no_eq>>)
PF_empty      == text_file(<<>>)
PropertiesFileContents == {PF_plain, PF_special, PF_bad, PF_empty, unopenable_file}

\* What a directory holds under the names of FileNames.
directories(FileNames, Contents) ==
    UNION {[N -> Contents] : N \in SUBSET FileNames}

\* JSON documents: a flat section with a compareIdentifier, a nested
\* section, both, and a section that is a string.
SEC_flat   == Dict(<<K_max_retries, COMPARE_IDENTIFIER>>, <<Str(S_1_2), Str(S_a_lt_b)>>)
SEC_flat2  == Dict(<<K_max_retries>>, <<Str(S_1_3)>>)
SEC_nested == Dict(<<S_svc>>, <<SEC_flat>>)
J_flat     == Dict(<<S_ps>>, <<SEC_flat>>)
J_flat2    == Dict(<<S_ps>>, <<SEC_flat2>>)
J_nested   == Dict(<<S_ecs>>, <<SEC_nested>>)
J_both     == Dict(<<S_ps, S_ecs>>, <<SEC_flat, SEC_nested>>)
J_str      == Dict(<<S_ps>>, <<Str(S_a)>>)
JsonFileContents ==
    {doc_file(J_flat), doc_file(J_flat2), doc_file(J_nested), doc_file(J_both),
     doc_file(J_str), malformed_file, unopenable_file}

TfvarsFileContents ==
    {doc_file(SEC_flat), doc_file(SEC_flat2), doc_file(EMPTY_DICT),
     malformed_file, unopenable_file}

\* The directory with a file next to its properties files.
with_notes(dir) ==
    [f \in (DOMAIN dir) \cup {FN_notes} |->
        IF f = FN_notes THEN PF_plain ELSE dir[f]]

InitMain ==
    /\ idle
    /\ probe = no_probe
    /\ \E e \in MainEnvPairs : env1 = e[1] /\ env2 = e[2]
    /\ mode \in {"json", "properties", "tfvars"}
    /\ CASE mode = "json" ->
              /\ dir1 \in directories({FN_json}, JsonFileContents)
              /\ dir2 \in directories({FN_json}, JsonFileContents)
         [] mode = "properties" ->
              /\ dir1 \in directories({FN_a, FN_b_and_c}, PropertiesFileContents)
              /\ \E d \in directories({FN_a, FN_b_and_c}, PropertiesFileContents) :
                    dir2 = with_notes(d)
         [] OTHER ->
              /\ dir1 \in directories({FN_tfvars}, TfvarsFileContents)
              /\ dir2 \in directories({FN_tfvars}, TfvarsFileContents)
    /\ main_data1 = <<>> /\ main_data2 = <<>>
    /\ units = <<>>
    /\ unit_i = 0
    /\ main_pc = "start"
    /\ compare_identifier = NONE
    /\ all_content = <<>>
    /\ output_file = no_output
    /\ exit_status = -1
    /\ temp_html = no_temp

NextMain ==
    \/ main_start
    \/ main_unit
    \/ compare_tfvars_data_enter
    \/ compare_properties_data_enter
    \/ loop_body
    \/ return_results
    \/ main_render
    \/ main_finish

SpecMain == InitMain /\ [][NextMain]_vars

(* ------------------- Old/compare_vars.py: main ------------------------- *)

\* The earlier main collects the tables of a run in temp.html: every
\* write_comparison_to_html appends one fragment to it, and the end of main
\* puts its text in place of {body} and removes it.

\* open("temp.html", "w") that leaves the text of the file in place
erase_previous_data_keeps(temp) == [exists |-> TRUE, content |-> temp.content]

\* open("temp.html", "w"); file.write("")
erase_previous_data(temp) == [exists |-> TRUE, content |-> <<>>]

\* The fragment write_comparison_to_html builds: the legend and the table
\* of a comparison of d1 and d2, or the paragraph of a missing file.
old_html_content(file_name, d1, d2, missing_in_env) ==
    [file_name |-> file_name, missing_in_env |-> missing_in_env,
     data1 |-> d1, data2 |-> d2]

\* open("temp.html", "a"); file.write(html_content)
old_write_comparison_to_html(temp, html_content) ==
    [exists |-> TRUE, content |-> Append(temp.content, html_content)]

(* main up to its loop (Old lines 400-431, 488-495).                         *)
old_main_start ==
    /\ main_pc = "start"
    /\ mode \in {"old_properties", "old_tfvars"}
    /\ temp_html' = erase_previous_data(temp_html)
    /\ output_file' = template_written(<<>>)
    /\ IF mode = "old_properties"
       THEN /\ \E order \in iteration_orders(properties_files(dir1)
                                             \cup properties_files(dir2)) :
                  units' = [i \in 1..Len(order) |->
                               unit(T_properties, order[i], FALSE)]
            /\ unit_i' = 1
            /\ main_pc' = "loop"
            /\ UNCHANGED exit_status
       ELSE IF FN_tfvars \notin DOMAIN dir1 \/ FN_tfvars \notin DOMAIN dir2
       THEN /\ exit_main
            /\ UNCHANGED <<units, unit_i>>
       ELSE /\ units' = <<unit(T_tfvars, T_tfvars, FALSE)>>
            /\ unit_i' = 1
            /\ main_pc' = "loop"
            /\ UNCHANGED exit_status
    /\ UNCHANGED <<fn, data1, data2, env1, env2, pc, all_keys, idx,
                   comparison_results, summary, first_run, probe, mode, dir1,
                   dir2, main_data1, main_data2, compare_identifier,
                   all_content>>

(* One properties file (Old lines 434-486) or the two tfvars files (Old      *)
(* lines 497-513): parsed, compared and written to temp.html.                *)
old_main_unit ==
    /\ main_pc = "loop"
    /\ mode \in {"old_properties", "old_tfvars"}
    /\ unit_i <= Len(units)
    /\ LET f  == units[unit_i].subsection
           in1 == f \in properties_files(dir1)
           in2 == f \in properties_files(dir2)
           r1 == IF mode = "old_properties" THEN parse_properties(file_at(dir1, f))
                 ELSE parse_tfvars(file_at(dir1, FN_tfvars))
           r2 == IF mode = "old_properties" THEN parse_properties(file_at(dir2, f))
                 ELSE parse_tfvars(file_at(dir2, FN_tfvars))
           d1 == IF mode = "old_properties" THEN r1.document ELSE doc_of(r1.document)
           d2 == IF mode = "old_properties" THEN r2.document ELSE doc_of(r2.document)
       IN IF mode = "old_properties" /\ (~in1 \/ ~in2)
          THEN /\ temp_html' = old_write_comparison_to_html(temp_html,
                      old_html_content(f, <<>>, <<>>,
                                       IF ~in2 THEN Str(env2) ELSE Str(env1)))
               /\ unit_i' = unit_i + 1
               /\ UNCHANGED <<main_pc, exit_status>>
          ELSE IF ~r1.returned \/ ~r2.returned
          THEN /\ exit_main
               /\ UNCHANGED <<temp_html, unit_i>>
          ELSE /\ temp_html' = old_write_comparison_to_html(temp_html,
                      old_html_content(f, d1, d2, NONE))
               /\ unit_i' = unit_i + 1
               /\ UNCHANGED <<main_pc, exit_status>>
    /\ UNCHANGED <<fn, data1, data2, env1, env2, pc, all_keys, idx,
                   comparison_results, summary, first_run, probe, mode, dir1,
                   dir2, main_data1, main_data2, units, compare_identifier,
                   all_content, output_file>>

(* After the loop (Old lines 515-523): the text of temp.html replaces        *)
(* {body} and temp.html is removed.                                          *)
old_main_finish ==
    /\ main_pc = "loop"
    /\ mode \in {"old_properties", "old_tfvars"}
    /\ unit_i > Len(units)
    /\ output_file' = [output_file EXCEPT !.filled = TRUE,
                                          !.body = temp_html.content]
    /\ temp_html' = no_temp
    /\ main_pc' = "exit"
    /\ exit_status' = 0
    /\ UNCHANGED <<fn, data1, data2, env1, env2, pc, all_keys, idx,
                   comparison_results, summary, first_run, probe, mode, dir1,
                   dir2, main_data1, main_data2, units, unit_i,
                   compare_identifier, all_content>>

\* The inputs of a run of the earlier main.
OldPropertiesFileContents == {PF_plain, PF_bad}
OldTfvarsFileContents == {doc_file(SEC_flat), malformed_file}
old_inputs(m, d1, d2) ==
    /\ m \in {"old_properties", "old_tfvars"}
    /\ IF m = "old_properties"
       THEN /\ d1 \in directories({FN_a, FN_b_and_c}, OldPropertiesFileContents)
            /\ d2 \in directories({FN_a, FN_b_and_c}, OldPropertiesFileContents)
       ELSE /\ d1 \in directories({FN_tfvars}, OldTfvarsFileContents)
            /\ d2 \in directories({FN_tfvars}, OldTfvarsFileContents)

(* The script is started again after a run that ended in sys.exit(1) and    *)
(* left its temp.html behind.                                                *)
old_run_again ==
    /\ main_pc = "exit"
    /\ mode \in {"old_properties", "old_tfvars"}
    /\ temp_html.exists
    /\ ~first_run.done
    /\ first_run' = [first_run EXCEPT !.done = TRUE]
    /\ old_inputs(mode', dir1', dir2')
    /\ units' = <<>>
    /\ unit_i' = 0
    /\ main_pc' = "start"
    /\ exit_status' = -1
    /\ UNCHANGED <<fn, data1, data2, env1, env2, pc, all_keys, idx,
                   comparison_results, summary, probe, main_data1, main_data2,
                   compare_identifier, all_content, output_file, temp_html>>

InitOld ==
    /\ idle
    /\ probe = no_probe
    /\ env1 = E_dev /\ env2 = E_prod
    /\ old_inputs(mode, dir1, dir2)
    /\ main_data1 = <<>> /\ main_data2 = <<>>
    /\ units = <<>>
    /\ unit_i = 0
    /\ main_pc = "start"
    /\ compare_identifier = NONE
    /\ all_content = <<>>
    /\ output_file = no_output
    /\ exit_status = -1
    /\ temp_html = no_temp

NextOld ==
    \/ old_main_start
    \/ old_main_unit
    \/ old_main_finish
    \/ old_run_again

SpecOld == InitOld /\ [][NextOld]_vars

(* ------------------------------ properties ----------------------------- *)

rows == comparison_results
row_keys == {rows[i].key : i \in 1..Len(rows)}
union_keys == (DOMAIN data1) \cup (DOMAIN data2)
in_both(key) == key \in DOMAIN data1 /\ key \in DOMAIN data2
count_rows(row_class) ==
    Cardinality({i \in 1..Len(rows) : rows[i].row_class = row_class})

\* C1 as stated: when the comparison has returned, there is exactly one row
\* for every key of the union of the two documents' key sets and no other row.
C1_one_row_per_union_key ==
    pc = "done" =>
        /\ row_keys = union_keys
        /\ Len(rows) = Cardinality(union_keys)

\* C1, amended: compare_tfvars_data returns exactly one row for every key of
\* the union other than 'compareIdentifier', for which it returns none;
\* compare_properties_data returns exactly one row for every key of the union.
C1_one_row_per_compared_key ==
    pc = "done" =>
        LET compared == IF fn = "compare_tfvars_data"
                        THEN union_keys \ {COMPARE_IDENTIFIER}
                        ELSE union_keys
        IN /\ row_keys = compared
           /\ Len(rows) = Cardinality(compared)

C1_witness ==
    /\ pc = "done"
    /\ fn = "compare_tfvars_data"
    /\ COMPARE_IDENTIFIER \in union_keys
    /\ Len(rows) = 2

\* C2: a row is classified undefined ('yellow') if and only if its key is
\* absent from exactly one of the two documents.
C2_undefined_iff_absent_from_one_side ==
    \A i \in 1..Len(rows) :
        (rows[i].row_class = "yellow")
            <=> ((rows[i].key \in DOMAIN data1) # (rows[i].key \in DOMAIN data2))

\* C7: each summary counter is the number of rows of its classification, so
\* the four counters sum to the number of rows.
C7_summary_counts_rows ==
    pc \in {"loop", "done"} =>
        /\ summary.equal = count_rows("equal")
        /\ summary.undefined = count_rows("yellow")
        /\ summary.red = count_rows("red")
        /\ summary.blue = count_rows("blue")
        /\ summary.equal + summary.undefined + summary.red + summary.blue = Len(rows)

\* compare({a:1, b:2}, {a:1, c:3}, "dev", "prod"): one key equal on both sides,
\* one only on the left, one only on the right.
C7_witness ==
    /\ pc = "done"
    /\ env1 = E_dev /\ env2 = E_prod
    /\ Len(rows) = 3
    /\ \E a, b, c \in union_keys :
          /\ in_both(a) /\ data1[a] = data2[a]
          /\ b \in DOMAIN data1 /\ b \notin DOMAIN data2
          /\ c \in DOMAIN data2 /\ c \notin DOMAIN data1
    /\ summary = [equal |-> 1, undefined |-> 2, red |-> 0, blue |-> 0]

\* C8: consecutive rows are in case-insensitive key order.
C8_rows_sorted_case_insensitively ==
    \A i \in 1..(Len(rows) - 1) :
        str_le(lower(rows[i].key), lower(rows[i + 1].key))

\* 'compareIdentifier' before 'Max_Retries': the order by code point is the
\* opposite one.
C8_witness ==
    /\ pc = "done"
    /\ Len(rows) = 3
    /\ rows[1].key = COMPARE_IDENTIFIER
    /\ rows[2].key = K_Max_Retries
    /\ ~str_le(rows[1].key, rows[2].key)

\* C9: a second run on the same documents and labels returns the same rows
\* in the same order, and the same summary.
C9_second_run_returns_same_rows ==
    (pc = "done" /\ first_run.done) =>
        /\ comparison_results = first_run.results
        /\ summary = first_run.summary

\* C10: the differing row of a key is 'blue' exactly when the lower-cased key
\* has an occurrence of a lower-cased label, of "prod", "staging" or "dev", or
\* of a term of the vocabulary; the letter case of the key and of the labels
\* does not change the result; and under ("dev", "prod") the key
\* s3_bucket_url is environment-specific and max_retries is not.
occurs_at(sub, s, i) ==
    /\ i + Len(sub) - 1 <= Len(s)
    /\ \A j \in 1..Len(sub) : s[i + j - 1] = sub[j]

occurs_in(sub, s) == \E i \in 1..(Len(s) + 1) : occurs_at(sub, s, i)

environment_terms(e1, e2) ==
    {lower(e1), lower(e2), E_prod, E_staging, E_dev}
    \cup {environment_specific_keys[i] : i \in 1..Len(environment_specific_keys)}

C10_environment_specific_by_substring ==
    /\ \A i \in 1..Len(rows) :
          rows[i].row_class \in {"blue", "red"} =>
             /\ (rows[i].row_class = "blue")
                   <=> (\E t \in environment_terms(env1, env2) :
                           occurs_in(t, lower(rows[i].key)))
             /\ (rows[i].row_class = "blue")
                   <=> is_environment_specific(upper(rows[i].key), upper(env1), lower(env2))
             /\ (rows[i].row_class = "blue")
                   <=> is_environment_specific(lower(rows[i].key), lower(env1), upper(env2))
    /\ (env1 = E_dev /\ env2 = E_prod) =>
          \A i \in 1..Len(rows) :
             /\ (rows[i].key = K_s3_bucket_url /\ rows[i].row_class \in {"blue", "red"})
                   => rows[i].row_class = "blue"
             /\ (rows[i].key = K_max_retries /\ rows[i].row_class \in {"blue", "red"})
                   => rows[i].row_class = "red"

\* max_retries differs and is 'blue' because of the label "ES" alone, next to
\* s3_bucket_url, 'blue' by the vocabulary.
C10_witness ==
    /\ pc = "done"
    /\ env1 = E_ES
    /\ \E i, j \in 1..Len(rows) :
          /\ rows[i].key = K_max_retries /\ rows[i].row_class = "blue"
          /\ rows[j].key = K_s3_bucket_url /\ rows[j].row_class = "blue"

\* The rows of keys that both documents hold.
value1_of(i) == data1[rows[i].key]
value2_of(i) == data2[rows[i].key]
rows_in_both == {i \in 1..Len(rows) : in_both(rows[i].key)}

\* C3: for a key present in both documents, an Equal row is a row whose
\* structural diff is empty and it has empty diff text, and a row classified
\* as differing ('blue' or 'red') has a non-empty structural diff and carries
\* at least one diff entry in exact_diff.
C3_differing_row_has_diff_entry ==
    \A i \in rows_in_both :
        /\ rows[i].row_class = "equal" =>
              /\ ~truthy(DeepDiff(value1_of(i), value2_of(i)))
              /\ rows[i].exact_diff = <<>>
        /\ rows[i].row_class \in {"blue", "red"} =>
              /\ truthy(DeepDiff(value1_of(i), value2_of(i)))
              /\ rows[i].exact_diff # <<>>

\* Deep equality with the elements of a sequence taken as a set (neither
\* their order nor their repetition counts) and mapping keys in any order.
RECURSIVE same_ignoring_order(_, _)
same_ignoring_order(a, b) ==
    IF a.t # b.t THEN FALSE
    ELSE IF a.t = "str" THEN a.s = b.s
    ELSE IF a.t = "list"
    THEN /\ \A i \in 1..Len(a.items) : \E j \in 1..Len(b.items) :
               same_ignoring_order(a.items[i], b.items[j])
         /\ \A j \in 1..Len(b.items) : \E i \in 1..Len(a.items) :
               same_ignoring_order(a.items[i], b.items[j])
    ELSE /\ Range(a.keys) = Range(b.keys)
         /\ \A k \in Range(a.keys) :
               same_ignoring_order(dict_get(a, k), dict_get(b, k))

\* The rows for which the structural diff is computed.
rows_diffed == {i \in rows_in_both : rows[i].row_class # "yellow"}

\* C4 as stated: the structural diff of two values is empty (the row is
\* Equal) if and only if they are deeply equal with mapping keys in any
\* order and sequence elements in order.
C4_diff_empty_iff_equal_in_order ==
    \A i \in rows_diffed :
        (rows[i].row_class = "equal") <=> py_eq(value1_of(i), value2_of(i))

\* C4, amended: the structural diff of two values is empty (the row is Equal)
\* if and only if they are deeply equal with mapping keys in any order and
\* every sequence taken as the set of its elements, so that values that
\* differ only in the order or the repetition of the elements of a sequence
\* are reported as equal; two values that differ otherwise never yield an
\* empty diff.
C4_diff_empty_iff_equal_ignoring_order ==
    \A i \in rows_diffed :
        (rows[i].row_class = "equal")
            <=> same_ignoring_order(value1_of(i), value2_of(i))

\* An Equal row for two lists that hold the same elements in another order.
C4_witness ==
    \E i \in rows_diffed :
        /\ rows[i].row_class = "equal"
        /\ value1_of(i) = L_ab
        /\ value2_of(i) = L_ba

\* C5: the structural diff of every value against itself is empty, and the
\* comparison of a document with itself returns only Equal rows.
C5_self_comparison_all_equal ==
    /\ \A k \in DOMAIN data1 : ~truthy(DeepDiff(data1[k], data1[k]))
    /\ (pc = "done" /\ data1 = data2) =>
          \A i \in 1..Len(rows) : rows[i].row_class = "equal"

\* C6: the row of a key that both documents hold with values whose
\* structural diff is not empty is 'blue' if
\* is_environment_specific(key, env1, env2) and 'red' otherwise.
C6_differing_row_blue_or_red ==
    \A i \in rows_in_both :
        truthy(DeepDiff(value1_of(i), value2_of(i))) =>
            rows[i].row_class =
                IF is_environment_specific(rows[i].key, env1, env2)
                THEN "blue" ELSE "red"

\* The structural diff of the two values of row i, and its number of changes.
diff_of(i) == DeepDiff(value1_of(i), value2_of(i))
changes_of(i) ==
    Len(diff_of(i).values_changed) + Len(diff_of(i).type_changes)
    + Len(diff_of(i).dictionary_item_added) + Len(diff_of(i).dictionary_item_removed)
    + Len(diff_of(i).iterable_item_added) + Len(diff_of(i).iterable_item_removed)

\* A and B are mappings, B holds every key of A but k, with A's values.
differ_only_in(A, B, k) ==
    /\ A.t = "dict" /\ B.t = "dict"
    /\ k \in Range(A.keys) /\ k \notin Range(B.keys)
    /\ Range(B.keys) = Range(A.keys) \ {k}
    /\ \A j \in Range(B.keys) : py_eq(dict_get(A, j), dict_get(B, j))

\* C11: when the two mappings of a row differ only in one key k that the left
\* one holds and the right one does not, the diff of the row is exactly one
\* "removed" entry at k's path; when only the right one holds k, it is exactly
\* one "added" entry at k's path showing the right mapping's value.
C11_one_removed_or_added_entry ==
    \A i \in rows_diffed :
        /\ \A k \in Range(value1_of(i).keys) :
              differ_only_in(value1_of(i), value2_of(i), k) =>
                  /\ Len(rows[i].exact_diff) = 1
                  /\ rows[i].exact_diff[1].kind = "removed"
                  /\ contains(rows[i].exact_diff[1].key, k)
        /\ \A k \in Range(value2_of(i).keys) :
              differ_only_in(value2_of(i), value1_of(i), k) =>
                  /\ Len(rows[i].exact_diff) = 1
                  /\ rows[i].exact_diff[1].kind = "added"
                  /\ contains(rows[i].exact_diff[1].key, k)
                  /\ rows[i].exact_diff[1].old = dict_get(value2_of(i), k)

\* C12: the diff text of a differing row has a line for every change of the
\* structural diff (changed leaf, added or removed mapping key or sequence
\* element), also when changes of several kinds fall under the same key.
C12_every_change_has_a_line ==
    \A i \in rows_diffed :
        rows[i].row_class \in {"blue", "red"} =>
            Len(rows[i].exact_diff) >= changes_of(i)

\* The positions below the shorter segment count at which two dotted strings
\* differ.
differing_positions(old, new) ==
    {p \in 1..Len(split_dot(old)) :
        /\ p <= Len(split_dot(new))
        /\ split_dot(old)[p] # split_dot(new)[p]}

\* C13: for two differing strings, the diff has exactly one entry
\* "<old segment> => <new segment>" for each position below the shorter
\* segment count at which the '.'-separated segments differ, in position
\* order and all at the same key path, and none for the segments beyond the
\* shorter string; "v1.2.3" against "v1.3.3" gives the single entry "2 => 3".
C13_one_entry_per_differing_segment ==
    \A i \in rows_diffed :
        (/\ rows[i].row_class \in {"blue", "red"}
         /\ value1_of(i).t = "str" /\ value2_of(i).t = "str") =>
            LET old == value1_of(i).s
                new == value2_of(i).s
                d   == rows[i].exact_diff
                at  == differing_positions(old, new)
            IN /\ Len(d) = Cardinality(at)
               /\ \A n \in 1..Len(d) :
                     /\ d[n].kind = "arrow"
                     /\ d[n].key = d[1].key
                     /\ \E p \in at :
                           /\ Cardinality({q \in at : q < p}) = n - 1
                           /\ d[n].old = Str(split_dot(old)[p])
                           /\ d[n].new = Str(split_dot(new)[p])
               /\ (old = S_v1_2_3 /\ new = S_v1_3_3) =>
                     /\ Len(d) = 1
                     /\ d[1].old = Str(<<"2">>) /\ d[1].new = Str(<<"3">>)

C13_witness ==
    \E i \in rows_diffed :
        /\ value1_of(i) = Str(S_v1_2_3)
        /\ value2_of(i) = Str(S_v1_3_3)
        /\ Len(rows[i].exact_diff) = 1
        /\ rows[i].exact_diff[1].old = Str(<<"2">>)

\* The document cut down to one key.
only_key(d, key) == [k \in (DOMAIN d) \cap {key} |-> d[k]]

\* C15: the row of a key is the row the comparison gives for the two
\* documents cut down to that key, under the same labels: the other
\* top-level keys and their values have no influence on it.
C15_row_depends_on_its_key_only ==
    \A i \in 1..Len(rows) :
        rows[i] = compare_key(only_key(data1, rows[i].key),
                              only_key(data2, rows[i].key),
                              rows[i].key, env1, env2)

\* A differing row next to an undefined row and a row of another spelling of
\* the same key.
C15_witness ==
    /\ pc = "done"
    /\ Len(rows) = 3
    /\ \E i, j \in 1..Len(rows) :
          /\ rows[i].row_class \in {"blue", "red"}
          /\ rows[j].row_class = "yellow"
          /\ i # j
          /\ lower(rows[i].key) = lower(rows[j].key)

\* The call of handle_nested_diffs on two lists that has returned.
list_call_done == probe.f = "handle_nested_diffs" /\ probe.done

bracketed(i) == <<"[">> \o str_int(i) \o <<"]">>
starts_with(s, prefix) ==
    Len(prefix) <= Len(s) /\ SubSeq(s, 1, Len(prefix)) = prefix
ends_with(s, suffix) ==
    Len(suffix) <= Len(s) /\ SubSeq(s, Len(s) - Len(suffix) + 1, Len(s)) = suffix

\* C14: for two lists L and R, handle_nested_diffs has entries only for the
\* indices below min(|L|,|R|) at which the elements differ, followed by
\* exactly | |L|-|R| | entries, one per trailing index in increasing order:
\* "added" with R's element when R is longer, "removed" with L's element when
\* L is longer, each at a path that ends in the bracketed index.
C14_list_diff_pairwise_then_trailing ==
    list_call_done =>
        LET L    == probe.args[1].items
            R    == probe.args[2].items
            base == probe.args[3]
            d    == probe.result
            n    == IF Len(L) < Len(R) THEN Len(L) ELSE Len(R)
            k    == IF Len(L) < Len(R) THEN Len(R) - Len(L) ELSE Len(L) - Len(R)
            differing == {i \in 1..n : ~py_eq(L[i], R[i])}
        IN /\ Len(d) = Cardinality(differing) + k
           /\ \A e \in 1..(Len(d) - k) :
                 \E i \in differing :
                    /\ Cardinality({q \in differing : q < i}) = e - 1
                    /\ starts_with(d[e].key, base \o bracketed(i - 1))
           /\ \A j \in 1..k :
                 LET t == d[Len(d) - k + j]
                 IN /\ t.kind = (IF Len(L) < Len(R) THEN "added" ELSE "removed")
                    /\ t.old = (IF Len(L) < Len(R) THEN R[n + j] ELSE L[n + j])
                    /\ t.key = base \o bracketed(n + j - 1)
                    /\ ends_with(t.key, bracketed(n + j - 1))

\* A changed element at index 0 and two trailing elements of the right list.
C14_witness ==
    /\ list_call_done
    /\ Len(probe.args[1].items) = 1
    /\ Len(probe.args[2].items) = 3
    /\ Len(probe.result) = 3
    /\ probe.result[1].kind = "arrow"
    /\ probe.result[2].kind = "added"
    /\ probe.result[3].kind = "added"
    /\ probe.result[3].old = probe.args[2].items[3]

\* The call of parse_properties that has ended, and the stripped lines of
\* its file that are neither blank nor comments.
parse_call_done == probe.f = "parse_properties" /\ probe.done
parsed_file_lines == probe.args[1].lines
entry_lines ==
    {n \in 1..Len(parsed_file_lines) :
        /\ strip(parsed_file_lines[n]) # <<>>
        /\ strip(parsed_file_lines[n])[1] # "#"}
first_eq(s) == CHOOSE i \in 1..Len(s) : s[i] = "=" /\ \A j \in 1..(i - 1) : s[j] # "="
has_eq(s) == \E i \in 1..Len(s) : s[i] = "="
key_of(n) ==
    LET s == strip(parsed_file_lines[n]) IN strip(SubSeq(s, 1, first_eq(s) - 1))
value_of(n) ==
    LET s == strip(parsed_file_lines[n]) IN strip(SubSeq(s, first_eq(s) + 1, Len(s)))

\* C16 as stated: the mapping parse_properties returns has no entry for
\* blank and comment lines, and for every other line one entry whose key is
\* the trimmed text before the first '=' and whose value is the trimmed text
\* after it.
C16_one_entry_per_line ==
    (parse_call_done /\ probe.result.returned) =>
        /\ DOMAIN probe.result.document = {key_of(n) : n \in entry_lines}
        /\ \A n \in entry_lines :
              probe.result.document[key_of(n)] = Str(value_of(n))

\* C16, amended: the mapping has exactly the keys of the lines that are
\* neither blank nor comments (the trimmed text before the first '='), and
\* under each key the trimmed text after the first '=' of the last line with
\* that key.
C16_last_line_of_a_key_wins ==
    (parse_call_done /\ probe.result.returned) =>
        /\ DOMAIN probe.result.document = {key_of(n) : n \in entry_lines}
        /\ \A n \in entry_lines :
              (\A m \in entry_lines : key_of(m) = key_of(n) => m <= n) =>
                  probe.result.document[key_of(n)] = Str(value_of(n))
        /\ parsed_file_lines[1] = LINE_two_eq =>
              /\ <<"k","e","y">> \in DOMAIN probe.result.document
              /\ Len(parsed_file_lines[2]) < 3 =>
                    probe.result.document[<<"k","e","y">>]
                        = Str(<<"v","a","l","u","e","=","e","x","t","r","a">>)

\* "key=value=extra" after a comment line: the one entry key -> value=extra.
C16_witness ==
    /\ parse_call_done
    /\ probe.result.returned
    /\ parsed_file_lines[2] = LINE_two_eq
    /\ strip(parsed_file_lines[1]) = <<"#">>
    /\ DOMAIN probe.result.document = {<<"k","e","y">>}
    /\ probe.result.document[<<"k","e","y">>].s
          = <<"v","a","l","u","e","=","e","x","t","r","a">>

\* C17: when a line that is neither blank nor a comment has no '=',
\* parse_properties ends the run with a failure status and returns no
\* document, whatever well-formed lines precede the line.
C17_line_without_eq_fails ==
    parse_call_done =>
        ((\E n \in entry_lines : ~has_eq(strip(parsed_file_lines[n])))
            <=> (/\ ~probe.result.returned
                 /\ probe.result.exit = 1
                 /\ probe.result.document = <<>>))

\* A well-formed entry followed by a line without '='.
C17_witness ==
    /\ parse_call_done
    /\ parsed_file_lines[1] = LINE_entry
    /\ parsed_file_lines[2] = LINE_no_eq
    /\ ~probe.result.returned
    /\ probe.result.exit = 1

\* The two files the parsers are called on for the unit main is at.
files_of_unit(u) ==
    CASE mode = "json"       -> <<file_at(dir1, FN_json), file_at(dir2, FN_json)>>
      [] mode = "properties" -> <<file_at(dir1, u.subsection),
                                  file_at(dir2, u.subsection)>>
      [] OTHER               -> <<file_at(dir1, FN_tfvars), file_at(dir2, FN_tfvars)>>

\* The properties files that both directories list.
files_in_both == properties_files(dir1) \cap properties_files(dir2)

\* Some file the run has to parse cannot be opened.
unopenable_input ==
    CASE mode = "json"       -> \/ file_at(dir1, FN_json).kind = "unopenable"
                                \/ file_at(dir2, FN_json).kind = "unopenable"
      [] mode = "properties" -> \E f \in files_in_both :
                                   \/ dir1[f].kind = "unopenable"
                                   \/ dir2[f].kind = "unopenable"
      [] OTHER               -> \/ file_at(dir1, FN_tfvars).kind = "unopenable"
                                \/ file_at(dir2, FN_tfvars).kind = "unopenable"

\* C18: each of the three parsers, called on a path that cannot be opened,
\* ends the run with a failure status and returns no document: no
\* comparison is ever called on a unit one of whose files cannot be opened,
\* and a run with such an input file ends with status 1 and without a
\* report body.
C18_unopenable_path_ends_run ==
    /\ (main_pc = "compare" /\ unit_i \in 1..Len(units)) =>
          /\ files_of_unit(units[unit_i])[1].kind # "unopenable"
          /\ files_of_unit(units[unit_i])[2].kind # "unopenable"
    /\ (main_pc = "exit" /\ unopenable_input) =>
          /\ exit_status = 1
          /\ ~output_file.filled
    /\ (mode \in {"json", "tfvars"} /\ unopenable_input) =>
          /\ fn = "none"
          /\ main_data1 = <<>> /\ main_data2 = <<>>

\* A JSON run whose first file is well-formed and whose second path does
\* not exist.
C18_witness ==
    /\ main_pc = "exit"
    /\ exit_status = 1
    /\ mode = "json"
    /\ FN_json \in DOMAIN dir1 /\ dir1[FN_json].kind = "doc"
    /\ FN_json \notin DOMAIN dir2
    /\ fn = "none"

\* The run has ended because a parser failed on an input document.
parse_failure ==
    /\ main_pc = "exit"
    /\ exit_status = 1
    /\ CASE mode = "json" ->
              \/ ~parse_json(file_at(dir1, FN_json)).returned
              \/ ~parse_json(file_at(dir2, FN_json)).returned
         [] mode = "properties" ->
              /\ unit_i \in 1..Len(units)
              /\ \/ ~parse_properties(file_at(dir1, units[unit_i].subsection)).returned
                 \/ ~parse_properties(file_at(dir2, units[unit_i].subsection)).returned
         [] OTHER ->
              \/ ~parse_tfvars(file_at(dir1, FN_tfvars)).returned
              \/ ~parse_tfvars(file_at(dir2, FN_tfvars)).returned

\* C19: in a run of main in which an input document fails to parse, no
\* comparison of any pair of documents is executed and no comparison row is
\* written to the output.
C19_parse_failure_before_any_comparison ==
    parse_failure =>
        /\ fn = "none"
        /\ comparison_results = <<>>
        /\ ~output_file.filled

\* A text embedded in the markup holds no raw < > " ' and no & other than
\* the first character of one of the five entities.
escaped(text) ==
    \A i \in 1..Len(text) :
        /\ text[i] \notin {"<", ">", "\"", "'"}
        /\ text[i] = "&" =>
              \E ent \in {T_amp, T_quot, T_x27, T_gt, T_lt} :
                 /\ i + Len(ent) - 1 <= Len(text)
                 /\ SubSeq(text, i, i + Len(ent) - 1) = ent

\* C20: every free text of an accordion item (the title with the subsection
\* and the compareIdentifier, the two environment labels, and the key, the
\* two values, the diff text and the status text of every row) is embedded
\* escaped.
C20_every_free_text_is_escaped ==
    \A n \in 1..Len(all_content) :
        /\ escaped(all_content[n].title)
        /\ escaped(all_content[n].alert.env)
        /\ escaped(all_content[n].env1)
        /\ escaped(all_content[n].env2)
        /\ \A r \in 1..Len(all_content[n].rows) :
              /\ escaped(all_content[n].rows[r].key)
              /\ escaped(all_content[n].rows[r].value1)
              /\ escaped(all_content[n].rows[r].value2)
              /\ escaped(all_content[n].rows[r].exact_diff)
              /\ escaped(all_content[n].rows[r].status.env)

(* ------------------------------ C21 ------------------------------------ *)

\* The fragment the earlier main writes for the unit u of its loop.
old_fragment_of(u) ==
    LET f == u.subsection
    IN IF mode = "old_tfvars"
       THEN old_html_content(f, doc_of(parse_tfvars(file_at(dir1, FN_tfvars)).document),
                             doc_of(parse_tfvars(file_at(dir2, FN_tfvars)).document),
                             NONE)
       ELSE IF f \notin properties_files(dir2)
       THEN old_html_content(f, <<>>, <<>>, Str(env2))
       ELSE IF f \notin properties_files(dir1)
       THEN old_html_content(f, <<>>, <<>>, Str(env1))
       ELSE old_html_content(f, parse_properties(file_at(dir1, f)).document,
                             parse_properties(file_at(dir2, f)).document, NONE)

old_fragments(n) == [i \in 1..n |-> old_fragment_of(units[i])]

\* C21: in a run of the earlier main, temp.html holds, while the loop runs,
\* exactly the fragments this run has written so far, in the order of the
\* calls (so it was emptied before the first of them, whatever an earlier
\* run left in it); when the run succeeds, the text put in place of {body}
\* is exactly the fragments of this run in call order and temp.html is gone.
C21_body_is_the_fragments_of_this_run ==
    /\ (main_pc = "loop" /\ mode \in {"old_properties", "old_tfvars"})
          => /\ temp_html.exists
             /\ temp_html.content = old_fragments(unit_i - 1)
    /\ (main_pc = "exit" /\ exit_status = 0
            /\ mode \in {"old_properties", "old_tfvars"})
          => /\ output_file.filled
             /\ output_file.body = old_fragments(Len(units))
             /\ ~temp_html.exists

\* A run that started over the temp.html of an aborted run has succeeded
\* with two fragments.
C21_witness ==
    /\ first_run.done
    /\ main_pc = "exit" /\ exit_status = 0
    /\ Len(output_file.body) = 2

(* ------------------------------ C22 ------------------------------------ *)

load_env_config_done == probe.f = "load_env_config" /\ probe.done

\* The array of environments of a configuration file, empty when the file
\* has none to read.
envs_of(file) ==
    IF file.kind = "doc" /\ file.doc.t = "dict" /\ T_envs \in Range(file.doc.keys)
          /\ dict_get(file.doc, T_envs).t = "list"
    THEN dict_get(file.doc, T_envs).items
    ELSE <<>>

\* C22: load_env_config never raises; it returns None for a missing file,
\* an empty or white-space file, a text that is no JSON and a file without
\* an entry at env_index, and the entry at env_index otherwise.
C22_load_env_config_returns_entry_or_none ==
    load_env_config_done =>
        LET file == probe.args[1]
            i    == probe.args[2]
        IN /\ ~probe.result.raised
           /\ probe.result.value = IF 0 <= i /\ i < Len(envs_of(file))
                                   THEN envs_of(file)[i + 1]
                                   ELSE NONE

(* ------------------------------ C23 ------------------------------------ *)

parameter_store_call_done ==
    /\ probe.f = "fetch_parameter_store_config" /\ probe.done
    /\ probe.args[2]

\* All parameters the store shows under a path, page after page.
all_pages(ssm, path) == flatten(response_of(ssm, path).pages)

\* A call for the path raises before the last page has been read.
fetch_fails(ssm, path) ==
    LET r == response_of(ssm, path)
    IN r.fail_at >= 1 /\ r.fail_at <= (IF r.pages = <<>> THEN 1 ELSE Len(r.pages))

rds_call_done == probe.f = "fetch_rds_config" /\ probe.done /\ probe.args[2]

\* C24: with use_instance_ids, rds_db_instance_k holds the instance whose
\* identifier is the k-th configured one, in whatever order the API
\* returns the instances, and there is no rds_db_instance_k for a
\* configured identifier that names no instance.
C24_rds_index_is_position_in_configured_list ==
    rds_call_done =>
        LET identifier == probe.args[1]
            existing   == {q.DBInstanceIdentifier :
                              q \in Range(flatten(probe.args[3]))}
            result     == probe.result
            key(k)     == T_rds_db_instance_ \o str_int(k)
        IN /\ Range(result.keys) =
                 {key(k) : k \in {j \in 1..Len(identifier) : identifier[j] \in existing}}
           /\ \A k \in 1..Len(identifier) :
                 identifier[k] \in existing =>
                    dict_get(dict_get(result, key(k)), COMPARE_IDENTIFIER)
                        = Str(identifier[k])

(* ------------------------------ C25, C26, C27 -------------------------- *)

\* fetch_ecs_service_config has returned its dict.
ecs_call_returned ==
    /\ probe.f = "fetch_ecs_service_config" /\ probe.done
    /\ ~probe.result.raised

ecs_result == probe.result.value

T_container_path == T_slash_task_definition \o T_slash_container_definition_slash

\* The keys of the service entries and of the container-definition entries.
service_keys == {k \in Range(ecs_result.keys) : ~contains(k, T_slash_task_definition)}
container_keys ==
    {k \in Range(ecs_result.keys) : contains(k, T_slash_container_definition_slash)}

\* The names of the container definitions entered under the service key sk.
containers_under(sk) ==
    {SubSeq(k, Len(sk \o T_container_path) + 1, Len(k)) :
        k \in {c \in Range(ecs_result.keys) : startswith(c, sk \o T_container_path)}}

\* C25: the key of every container-definition entry is the key of a service
\* entry followed by "/task_definition/container_definition/" and the name
\* of the container ("C/S" in the mode without custom identifiers,
\* "cluster_i/service_j" with them).
C25_container_key_extends_service_key ==
    ecs_call_returned =>
        \A k \in container_keys :
            \E sk \in service_keys :
                /\ startswith(k, sk \o T_container_path)
                /\ Len(k) > Len(sk \o T_container_path)

\* C26: under a service are entered exactly the container definitions of
\* the task definition entered for it: none when it has no task definition.
C26_containers_are_those_of_own_task_definition ==
    (ecs_call_returned /\ probe.args[2]) =>
        \A sk \in service_keys :
            LET task_definition == dict_get(ecs_result, sk \o T_slash_task_definition)
                own == IF task_definition = EMPTY_DICT THEN {}
                       ELSE UNION {Range(d.containerDefinitions) :
                                d \in {x \in Range(probe.args[3].task_definitions) :
                                          Str(x.family) = dict_get(task_definition, T_family)}}
            IN containers_under(sk) = own

\* C27: the services entered for a configured cluster are services of the
\* cluster with exactly that name.
C27_services_of_the_cluster_named_exactly ==
    (ecs_call_returned /\ probe.args[2]) =>
        \A sk \in service_keys :
            \E i \in 1..Len(probe.args[1]) :
                LET cluster_name == probe.args[1][i].clusterName
                    ecs          == probe.args[3]
                IN /\ cluster_arn_of(cluster_name) \in Range(ecs.clusterArns)
                   /\ \E sv \in Range(ecs.services[cluster_arn_of(cluster_name)]) :
                         dict_get(ecs_result, sk)
                             = Dict(<<COMPARE_IDENTIFIER, T_serviceName>>,
                                    <<Str(cluster_name \o <<"/">> \o sv.serviceName),
                                      Str(sv.serviceName)>>)

(* ------------------------------ C28 ------------------------------------ *)

\* The row of `key` when the same function compares the two documents with
\* the sides exchanged: (data2, data1, env2, env1).
swapped_row(key) == compare_key(loop_data(data2), loop_data(data1), key, env2, env1)

swapped_count(row_class) ==
    Cardinality({i \in 1..Len(comparison_results) :
                    swapped_row(comparison_results[i].key).row_class = row_class})

\* Exchanging the sides leaves every key in its class and the summary as it
\* is.
C28_swap_keeps_classes_and_summary ==
    pc = "done" =>
        /\ \A i \in 1..Len(comparison_results) :
              swapped_row(comparison_results[i].key).row_class
                  = comparison_results[i].row_class
        /\ summary = [equal     |-> swapped_count("equal"),
                      undefined |-> swapped_count("yellow"),
                      red       |-> swapped_count("red"),
                      blue      |-> swapped_count("blue")]

\* C28: exchanging the sides, compare(B, A, env2, env1) for compare(A, B,
\* env1, env2), leaves the summary unchanged and every key in its class,
\* and a key reported as not defined is still reported for the same
\* document: "not defined in" names the label of that document in both
\* runs.
C28_swap_exchanges_sides_only ==
    pc = "done" =>
        /\ C28_swap_keeps_classes_and_summary
        /\ \A i \in 1..Len(comparison_results) :
              comparison_results[i].row_class = "yellow" =>
                 swapped_row(comparison_results[i].key).status
                     = comparison_results[i].status

(* ------------------------------ C29 ------------------------------------ *)

\* C29: when env1 or env2 is the empty string, is_environment_specific is
\* true for every key, so no row is 'red' and summary['red'] is 0.
C29_empty_label_makes_every_key_specific ==
    (env1 = <<>> \/ env2 = <<>>) =>
        /\ \A key \in Keys : is_environment_specific(key, env1, env2)
        /\ \A i \in 1..Len(comparison_results) :
              comparison_results[i].row_class # "red"
        /\ summary.red = 0

\* max_retries differs between the two documents and is reported 'blue'
\* under the labels "dev" and "".
C29_witness ==
    /\ pc = "done"
    /\ env1 = E_dev /\ env2 = <<>>
    /\ \E i \in 1..Len(comparison_results) :
          /\ comparison_results[i].key = K_max_retries
          /\ comparison_results[i].row_class = "blue"

(* ------------------------------ C30 ------------------------------------ *)

\* A JSON run on two documents whose sections are all objects.
json_documents ==
    /\ mode = "json"
    /\ file_at(dir1, FN_json).kind = "doc"
    /\ file_at(dir2, FN_json).kind = "doc"
    /\ \A d \in {file_at(dir1, FN_json).doc, file_at(dir2, FN_json).doc} :
          /\ d.t = "dict"
          /\ \A i \in 1..Len(d.items) : d.items[i].t = "dict"

\* The sections of the first document that the second lacks.
missing_sections ==
    Range(file_at(dir1, FN_json).doc.keys) \ Range(file_at(dir2, FN_json).doc.keys)

\* The accordion items of a section in the report.
items_of(section) ==
    {i \in 1..Len(output_file.body) : output_file.body[i].section = section}

\* C30: a JSON run in which a section of the first document is absent from
\* the second completes: the report has one tab for every section of the
\* first document, and the absent section, flat or nested, has its items,
\* in which every row is 'Not defined in' the second label.
C30_missing_section_is_reported ==
    (main_pc = "exit" /\ json_documents /\ missing_sections # {}) =>
        /\ exit_status = 0
        /\ output_file.filled
        /\ output_file.tabs = file_at(dir1, FN_json).doc.keys
        /\ \A section \in missing_sections :
              /\ Cardinality(items_of(section))
                    = Cardinality({j \in 1..Len(units) : units[j].section = section})
              /\ \A i \in items_of(section) :
                    LET item == output_file.body[i]
                    IN /\ item.kind = "table"
                       /\ \A r \in 1..Len(item.rows) :
                             /\ item.rows[r].row_class = "yellow"
                             /\ item.rows[r].status
                                   = status_text("Not defined in", upper(env2))

\* The part of C30 that holds: a flat section the second document lacks.
C30_flat_missing_section_is_reported ==
    (/\ main_pc = "exit" /\ json_documents /\ missing_sections # {}
     /\ \A section \in missing_sections :
           ~is_nested_dict(dict_get(file_at(dir1, FN_json).doc, section)))
        => C30_missing_section_is_reported

====
